---- MODULE Spec2Model ----
(***************************************************************************)
(* Broker: the reliable ordered channel (include/broker/detail/channel.hh) *)
(* and the master state machine of the replicated store (master_actor.cc). *)
(***************************************************************************)
EXTENDS Integers, Sequences, FiniteSets, Bags, TLC

(***************************************************************************)
(* Bounds and domains                                                      *)
(***************************************************************************)
\* Highest sequence number the producer may assign.
MaxSeq == 3

\* Highest sequence number when the producer is driven through its interface.
MaxProdSeq == 2

\* Longest run of ticks without progress and with an empty reorder buffer
\* that the channel system explores.
MaxIdleTicks == 2

\* idle_ticks_ is a uint8_t: ++idle_ticks_ wraps at 2^8.
IdleTicksMod == 256

Handles == {"c1", "c2"}

\* The consumers that take part in the channel system.
ChanHandles == {"c1"}

Payloads == {"a", "b"}

(***************************************************************************)
(* State                                                                   *)
(***************************************************************************)
VARIABLES
  producer,    \* channel::producer: [seq_, buf_, paths_]
  pout,        \* what the last producer call handed to backend_->send
  add_result,  \* what the last producer::add returned
  consumer,    \* channel::consumer, one per handle: [next_seq_, buf_, tick_,
               \*  last_tick_seq_, idle_ticks_, ack_interval_, nack_timeout_]
  cout,        \* what the last call of each consumer handed to backend_->send
  tick_threw,  \* the last tick() of each consumer left by std::length_error
  delivered,   \* the events each consumer handed to backend_->consume
  gap_reported,\* the undelivered sequence numbers for which the owner of
               \*  each consumer received retransmit_failed
  net_c,       \* messages in flight to each consumer
  net_p,       \* messages in flight to the producer
  produced,    \* the payloads given to produce, in order
  rf_sent,     \* the producer has sent a retransmit_failed
  idle_run     \* per consumer: the ticks without progress since the last
               \*  tick with progress or the last nack, counted without
               \*  the width of idle_ticks_

pvars == <<producer, pout, add_result, produced, rf_sent>>
cvars == <<consumer, cout, tick_threw, delivered, gap_reported>>
nvars == <<net_c, net_p>>
hvars == <<idle_run>>
chanvars == <<pvars, cvars, nvars, hvars>>

(***************************************************************************)
(* Messages                                                                *)
(***************************************************************************)
cumulative_ack(seq) == [type |-> "cumulative_ack", seq |-> seq]
nack(seqs) == [type |-> "nack", seqs |-> seqs]
handshake(first_seq) == [type |-> "handshake", first_seq |-> first_seq]
event(seq, content) == [type |-> "event", seq |-> seq, content |-> content]
retransmit_failed(seq) == [type |-> "retransmit_failed", seq |-> seq]

Min(a, b) == IF a < b THEN a ELSE b

\* backend_->send(hdl, msg)
SendTo(hdl, msg) == [to |-> hdl, msg |-> msg]

(***************************************************************************)
(* channel::producer. Every member function is an operator from the        *)
(* producer p = [seq_, buf_, paths_] to the producer it leaves (field p)   *)
(* and the messages it hands to the backend, in order (field out).         *)
(***************************************************************************)
\* find_path: index of the first path of hdl, 0 for paths_.end()
find_path(p, hdl) ==
  IF \E i \in 1..Len(p.paths_) : p.paths_[i].hdl = hdl
  THEN CHOOSE i \in 1..Len(p.paths_) :
         /\ p.paths_[i].hdl = hdl
         /\ \A j \in 1..(i - 1) : p.paths_[j].hdl # hdl
  ELSE 0

\* find_event: index of the first event with that seq, 0 for buf_.end()
find_event(p, seq) ==
  IF \E i \in 1..Len(p.buf_) : p.buf_[i].seq = seq
  THEN CHOOSE i \in 1..Len(p.buf_) :
         /\ p.buf_[i].seq = seq
         /\ \A j \in 1..(i - 1) : p.buf_[j].seq # seq
  ELSE 0

\* A produce that numbers the event before it increments seq_.
produce_stale_seq(p, content) ==
  LET ev == event(p.seq_, content)
  IN [p |-> [p EXCEPT !.seq_ = p.seq_ + 1, !.buf_ = Append(p.buf_, ev)],
      out |-> [i \in 1..Len(p.paths_) |-> SendTo(p.paths_[i].hdl, ev)]]

produce(p, content) ==
  LET ev == event(p.seq_ + 1, content)
  IN [p |-> [p EXCEPT !.seq_ = p.seq_ + 1, !.buf_ = Append(p.buf_, ev)],
      out |-> [i \in 1..Len(p.paths_) |-> SendTo(p.paths_[i].hdl, ev)]]

\* producer::idle
idle(p) == \A i \in 1..Len(p.paths_) : p.paths_[i].acked = p.seq_

\* An add that takes the current sequence number as the offset.
add_offset_seq(p, hdl) ==
  IF find_path(p, hdl) # 0
  THEN [p |-> p, out |-> <<>>, result |-> "consumer_exists"]
  ELSE [p |-> [p EXCEPT !.paths_ =
                 Append(p.paths_, [hdl |-> hdl, offset |-> p.seq_,
                                   acked |-> p.seq_])],
        out |-> <<SendTo(hdl, handshake(p.seq_))>>,
        result |-> "nil"]

add(p, hdl) ==
  IF find_path(p, hdl) # 0
  THEN [p |-> p, out |-> <<>>, result |-> "consumer_exists"]
  ELSE LET offset == p.seq_ + 1
       IN [p |-> [p EXCEPT !.paths_ =
                    Append(p.paths_, [hdl |-> hdl, offset |-> offset,
                                      acked |-> p.seq_])],
           out |-> <<SendTo(hdl, handshake(offset))>>,
           result |-> "nil"]

\* The loop of handle_ack: the path of hdl takes seq; the running minimum
\* starts at seq and takes in the acked of every other path.
RECURSIVE AckLoop(_, _, _, _, _)
AckLoop(paths, hdl, seq, i, acked) ==
  IF i > Len(paths) THEN [paths |-> paths, acked |-> acked]
  ELSE IF paths[i].hdl = hdl
       THEN AckLoop([paths EXCEPT ![i].acked = seq], hdl, seq, i + 1, acked)
       ELSE AckLoop(paths, hdl, seq, i + 1, Min(paths[i].acked, acked))

\* buf_.erase(buf_.begin(), find_if(not_acked)): the leading events that are
\* not above acked go.
RECURSIVE EraseAcked(_, _)
EraseAcked(buf, acked) ==
  IF buf # <<>> /\ ~(Head(buf).seq > acked)
  THEN EraseAcked(Tail(buf), acked)
  ELSE buf

handle_ack(p, hdl, seq) ==
  LET r == AckLoop(p.paths_, hdl, seq, 1, seq)
  IN [p |-> [p EXCEPT !.paths_ = r.paths,
                      !.buf_ = EraseAcked(p.buf_, r.acked)],
      out |-> <<>>]

\* A handle_nack that stays silent about the events it no longer holds.
handle_nack_skip_missing(p, hdl, seqs) ==
  IF seqs = <<>> THEN [p |-> p, out |-> <<>>]
  ELSE IF find_path(p, hdl) = 0 THEN [p |-> p, out |-> <<>>]
  ELSE IF Head(seqs) = 0
  THEN [p |-> p,
        out |-> <<SendTo(hdl, handshake(p.paths_[find_path(p, hdl)].offset))>>]
  ELSE LET q == handle_ack(p, hdl, Head(seqs) - 1).p
           held == SelectSeq(seqs, LAMBDA x : find_event(q, x) # 0)
       IN [p |-> q,
           out |-> [k \in 1..Len(held) |->
                      SendTo(hdl, q.buf_[find_event(q, held[k])])]]

\* A handle_nack that answers a leading 0 with a new offset.
handle_nack_new_offset(p, hdl, seqs) ==
  IF seqs = <<>> THEN [p |-> p, out |-> <<>>]
  ELSE IF find_path(p, hdl) = 0 THEN [p |-> p, out |-> <<>>]
  ELSE IF Head(seqs) = 0
  THEN [p |-> p, out |-> <<SendTo(hdl, handshake(p.seq_ + 1))>>]
  ELSE LET q == handle_ack(p, hdl, Head(seqs) - 1).p
       IN [p |-> q,
           out |-> [k \in 1..Len(seqs) |->
                      IF find_event(q, seqs[k]) # 0
                      THEN SendTo(hdl, q.buf_[find_event(q, seqs[k])])
                      ELSE SendTo(hdl, retransmit_failed(seqs[k]))]]

handle_nack(p, hdl, seqs) ==
  IF seqs = <<>> THEN [p |-> p, out |-> <<>>]
  ELSE IF find_path(p, hdl) = 0 THEN [p |-> p, out |-> <<>>]
  ELSE IF Head(seqs) = 0
  THEN [p |-> p,
        out |-> <<SendTo(hdl, handshake(p.paths_[find_path(p, hdl)].offset))>>]
  ELSE LET q == handle_ack(p, hdl, Head(seqs) - 1).p
       IN [p |-> q,
           out |-> [k \in 1..Len(seqs) |->
                      IF find_event(q, seqs[k]) # 0
                      THEN SendTo(hdl, q.buf_[find_event(q, seqs[k])])
                      ELSE SendTo(hdl, retransmit_failed(seqs[k]))]]

(***************************************************************************)
(* channel::consumer. Every member function is an operator from the        *)
(* consumer c to the consumer it leaves (field c), the events it hands to  *)
(* backend_->consume (field consumed) and the messages it hands to         *)
(* backend_->send (field out).                                             *)
(***************************************************************************)
\* try_consume_buffer: consume the leading events whose seq is next_seq_,
\* then erase what was consumed.
RECURSIVE try_consume_buffer(_, _)
try_consume_buffer(c, consumed) ==
  IF c.buf_ # <<>> /\ Head(c.buf_).seq = c.next_seq_
  THEN try_consume_buffer([c EXCEPT !.next_seq_ = c.next_seq_ + 1,
                                    !.buf_ = Tail(c.buf_)],
                          Append(consumed, Head(c.buf_)))
  ELSE [c |-> c, consumed |-> consumed, out |-> <<>>, threw |-> FALSE]

handle_handshake(c, offset) ==
  IF offset >= c.next_seq_
  THEN try_consume_buffer([c EXCEPT !.next_seq_ = offset + 1], <<>>)
  ELSE [c |-> c, consumed |-> <<>>, out |-> <<>>, threw |-> FALSE]

\* find_if(pred) with pred = (x.seq >= seq): index of the first such event,
\* Len(buf) + 1 for buf_.end()
FirstNotBelow(buf, seq) ==
  IF \E i \in 1..Len(buf) : buf[i].seq >= seq
  THEN CHOOSE i \in 1..Len(buf) :
         /\ buf[i].seq >= seq
         /\ \A j \in 1..(i - 1) : ~(buf[j].seq >= seq)
  ELSE Len(buf) + 1

\* buf_.emplace(i, ev)
InsertAt(buf, i, ev) ==
  SubSeq(buf, 1, i - 1) \o <<ev>> \o SubSeq(buf, i, Len(buf))

handle_event(c, seq, payload) ==
  IF c.next_seq_ = seq
  THEN try_consume_buffer([c EXCEPT !.next_seq_ = seq + 1],
                          <<event(seq, payload)>>)
  ELSE IF seq > c.next_seq_
  THEN LET i == FirstNotBelow(c.buf_, seq)
           buf == IF i = Len(c.buf_) + 1
                  THEN Append(c.buf_, event(seq, payload))
                  ELSE IF c.buf_[i].seq # seq
                       THEN InsertAt(c.buf_, i, event(seq, payload))
                       ELSE c.buf_
       IN [c |-> [c EXCEPT !.buf_ = buf], consumed |-> <<>>, out |-> <<>>,
           threw |-> FALSE]
  ELSE [c |-> c, consumed |-> <<>>, out |-> <<>>, threw |-> FALSE]

\* send_ack
send_ack(c) ==
  <<cumulative_ack(IF c.next_seq_ > 0 THEN c.next_seq_ - 1 ELSE 0)>>

\* The generate lambda of tick applied to the events of buf in order: i runs
\* from first, every i below the found seq is listed, then i steps over it.
RECURSIVE Generate(_, _, _)
Generate(buf, i, seqs) ==
  IF buf = <<>> THEN seqs
  ELSE LET found == Head(buf).seq
           missing == [k \in 1..(IF i < found THEN found - i ELSE 0) |->
                         i + k - 1]
       IN Generate(Tail(buf), (IF i < found THEN found ELSE i) + 1,
                   seqs \o missing)

\* A tick whose nack lists every sequence number up to the last buffered
\* one, the buffered ones included.
tick_nack_all(c) ==
  LET progressed == c.next_seq_ > c.last_tick_seq_
      c1 == [c EXCEPT !.last_tick_seq_ = c.next_seq_,
                      !.tick_ = (c.tick_ + 1) % c.ack_interval_]
      ack == IF c1.tick_ = 0 THEN send_ack(c1) ELSE <<>>
      idle1 == (c.idle_ticks_ + 1) % IdleTicksMod
      first == c.next_seq_
      last == c.buf_[Len(c.buf_)].seq
  IN IF progressed
     THEN [c |-> [c1 EXCEPT !.idle_ticks_ = 0], consumed |-> <<>>,
           out |-> ack, threw |-> FALSE]
     ELSE IF c.buf_ # <<>> /\ idle1 >= c.nack_timeout_
     THEN IF last < first
          THEN [c |-> [c1 EXCEPT !.idle_ticks_ = 0], consumed |-> <<>>,
                out |-> <<>>, threw |-> TRUE]
          ELSE [c |-> [c1 EXCEPT !.idle_ticks_ = 0], consumed |-> <<>>,
                out |-> <<nack([k \in 1..(last - first + 1) |->
                                 first + k - 1])>>,
                threw |-> FALSE]
     ELSE [c |-> [c1 EXCEPT !.idle_ticks_ = idle1], consumed |-> <<>>,
           out |-> ack, threw |-> FALSE]

\* tick_ is kept modulo ack_interval_: it is read as tick_ % ack_interval_
\* only.
tick(c) ==
  LET progressed == c.next_seq_ > c.last_tick_seq_
      c1 == [c EXCEPT !.last_tick_seq_ = c.next_seq_,
                      !.tick_ = (c.tick_ + 1) % c.ack_interval_]
      ack == IF c1.tick_ = 0 THEN send_ack(c1) ELSE <<>>
      idle1 == (c.idle_ticks_ + 1) % IdleTicksMod
      first == c.next_seq_
      last == c.buf_[Len(c.buf_)].seq
  IN IF progressed
     THEN [c |-> [c1 EXCEPT !.idle_ticks_ = 0], consumed |-> <<>>,
           out |-> ack, threw |-> FALSE]
     ELSE IF c.buf_ # <<>> /\ idle1 >= c.nack_timeout_
     THEN \* seqs.reserve(last - first) on uint64_t: a negative difference
          \* wraps to above max_size() and reserve leaves tick by
          \* std::length_error, before anything is sent.
          IF last < first
          THEN [c |-> [c1 EXCEPT !.idle_ticks_ = 0], consumed |-> <<>>,
                out |-> <<>>, threw |-> TRUE]
          ELSE [c |-> [c1 EXCEPT !.idle_ticks_ = 0], consumed |-> <<>>,
                out |-> <<nack(Generate(c.buf_, first, <<>>))>>,
                threw |-> FALSE]
     ELSE [c |-> [c1 EXCEPT !.idle_ticks_ = idle1], consumed |-> <<>>,
           out |-> ack, threw |-> FALSE]

(***************************************************************************)
(* The master of a replicated store (master_state, master_actor)           *)
(***************************************************************************)
Keys == {"k1", "k2"}
KeyOrder == <<"k1", "k2">>
Values == {1, 2}
Publishers == {"p1"}
Requesters == {"w1", "w2"}
Cores == {"coreA", "coreB"}
CloneActors == {"cloneA", "cloneB"}
Null == "nullptr"

MasterKeys == {"k1"}

\* The values an add or subtract carries.
Operands == {1}

\* Most handlers observed in one run.
MaxHandled == 2

\* Highest value a key may reach by add.
MaxVal == 2

\* The latest instant of the clock.
MaxTime == 1

\* Most expire timers pending at once.
MaxTimers == 1

\* Most broadcast commands not yet applied by the clone.
MaxStream == 2

\* std::optional<T>: the empty sequence or a sequence of one value
None == <<>>
Some(v) == <<v>>

\* Timespans a command may carry as its expiry.
Expiries == {None, Some(1)}

\* expected<T>
Ok(v) == [ok |-> TRUE, val |-> v]
Err(code) == [ok |-> FALSE, err |-> code]

VARIABLES
  store,       \* the master's backend: key -> [value, expiry]
  clones,      \* master_state::clones: address of a core -> clone actor
  status,      \* "running", "quit" (self->quit) or "died" (detail::die)
  now,         \* clock->now()
  timers,      \* messages handed to clock->send_later, not yet delivered
  m_in,        \* the message the master handled last
  m_out,       \* the calls and sends of that handler, in order
  failed,      \* a backend call of the master has returned an error
  stream,      \* commands published on the clones topic, not yet applied
  clone_store  \* key -> value of a clone that applies the stream in order

mvars == <<store, clones, status, now, timers, m_in, m_out, failed, stream,
           clone_store>>

(***************************************************************************)
(* broker::address: sixteen bytes in network order.  address::mask works   *)
(* on them as four 32-bit words of the host, so a word is modelled by its  *)
(* 32 bits (bit i weighs 2^i) and the byte order of the host decides which *)
(* byte of memory holds which bits.                                        *)
(***************************************************************************)
VARIABLES
  address,           \* address::bytes(), address[1] is the highest-order byte
  little_endian,  \* the byte order of the host the code is built for
  mask_ok         \* what the last call of address::mask returned

addrvars == <<address, little_endian, mask_ok>>

VARIABLES
  pub,       \* the publisher object: worker_ (the handle is valid),
             \* drop_on_destruction_, destroyed
  pub_out,   \* the messages the last call on the publisher sent
  pub_call,  \* that call, and how many calls, resets, drop_all_on_destruction
             \* calls and items came so far
  queue,     \* the shared_publisher_queue of publisher and worker
  mailbox,   \* the mailbox of the publisher_worker
  worker,    \* publisher_worker: shutting_down, has_behavior, at_end, status
  credit,    \* the room the stream source has for items towards the core
  pushed,    \* the items handed to caf::downstream::push, in order
  batch      \* the last publish(std::vector<data>): its argument xs, the
             \* ranges handed to queue_->produce in order, and how many such
             \* calls and items came so far

pubvars == <<pub, pub_out, pub_call, queue, mailbox, worker, credit, pushed,
             batch>>

VARIABLES
  listening,    \* the endpoints that listen
  peerings,     \* the pairs of endpoints that have peered
  filters,      \* endpoint -> the topics its subscriber was made with
  inbox,        \* endpoint -> the queue of its subscriber
  polled,       \* endpoint -> what get() returned so far
  wire,         \* copies of published messages on their way to a peer
  sent_log,     \* every endpoint::publish so far, with the peers that
                \* shared the topic with the publishing endpoint
  peer_result   \* the last call of endpoint::peer and how it went

epvars == <<listening, peerings, filters, inbox, polled, wire, sent_log,
            peer_result>>

libvars == <<addrvars, pubvars, epvars>>

MaxAttempts == 2

MaxPublished == 2

MaxCalls == 5

MaxBatch == 61

MaxBatchCalls == 2

MaxCredit == 2

num_bytes == 16

Uint8Max == 255

Ones32 == [i \in 0..31 |-> TRUE]

Zero32 == [i \in 0..31 |-> FALSE]

And32(v, w) == [i \in 0..31 |-> v[i] /\ w[i]]

Not32(w) == [i \in 0..31 |-> ~w[i]]

BitOf(b, j) == (b \div (2 ^ j)) % 2 = 1

RECURSIVE ByteOf(_, _, _)
ByteOf(w, pos, j) ==
  IF j = 8 THEN 0
  ELSE (IF w[8 * pos + j] THEN 2 ^ j ELSE 0) + ByteOf(w, pos, j + 1)

\* reinterpret_cast<uint32_t*>(&bytes())[i], read by a host of byte order le
load32(a, i, le) ==
  [k \in 0..31 |->
     LET o == IF le THEN k \div 8 ELSE 3 - (k \div 8)
     IN BitOf(a[4 * i + o + 1], k % 8)]

\* the sixteen bytes of memory once the four words p are written back
store32(p, le) ==
  [j \in 1..num_bytes |->
     LET i == (j - 1) \div 4
         o == (j - 1) % 4
     IN ByteOf(p[i], IF le THEN o ELSE 3 - o, 0)]

to_network_order(w, le) ==
  IF le THEN [k \in 0..31 |-> w[8 * (3 - (k \div 8)) + (k % 8)]] ELSE w

bit_mask32(bottom_bits) ==
  IF bottom_bits >= 32 THEN Ones32
  ELSE [i \in 0..31 |-> i < bottom_bits]

\* address::mask with the mask word left in host order
mask_host_order(a, top_bits_to_keep, le) ==
  IF top_bits_to_keep > 128 THEN [ok |-> FALSE, bytes |-> a]
  ELSE LET quot == top_bits_to_keep \div 32
           rem == top_bits_to_keep % 32
           m == [i \in 0..3 |->
                   IF i > quot THEN Zero32
                   ELSE IF i = quot
                        THEN And32(Ones32, Not32(bit_mask32(32 - rem)))
                        ELSE Ones32]
           p == [i \in 0..3 |-> And32(load32(a, i, le), m[i])]
       IN [ok |-> TRUE, bytes |-> store32(p, le)]

mask(a, top_bits_to_keep, le) ==
  IF top_bits_to_keep > 128 THEN [ok |-> FALSE, bytes |-> a]
  ELSE LET quot == top_bits_to_keep \div 32
           rem == top_bits_to_keep % 32
           m == [i \in 0..3 |->
                   IF i > quot THEN Zero32
                   ELSE IF i = quot
                        THEN to_network_order(
                               And32(Ones32, Not32(bit_mask32(32 - rem))), le)
                        ELSE Ones32]
           p == [i \in 0..3 |-> And32(load32(a, i, le), m[i])]
       IN [ok |-> TRUE, bytes |-> store32(p, le)]

v4_mapped_prefix == <<0, 0, 0, 0, 0, 0, 0, 0, 0, 0, 255, 255>>

Addresses ==
  { [j \in 1..num_bytes |-> 255],
    v4_mapped_prefix \o <<192, 168, 1, 2>>,
    [j \in 1..num_bytes |-> (37 * j + 11) % 256],
    [j \in 1..num_bytes |-> IF j % 2 = 1 THEN 170 ELSE 85] }

InitAddress(A, E) ==
  /\ address \in A
  /\ little_endian \in E
  /\ mask_ok = TRUE


\* a.mask(n) for any argument a uint8_t can hold
MaskCall ==
  \E n \in 0..Uint8Max :
    LET r == mask(address, n, little_endian)
    IN /\ address' = r.bytes
       /\ mask_ok' = r.ok
       /\ UNCHANGED <<little_endian, chanvars, mvars, pubvars, epvars>>

(***************************************************************************)
(* broker::publisher and its publisher_worker.  The publisher object lives *)
(* in the application thread and shares a bounded queue with the worker,   *)
(* an actor that owns a stream source towards the core.  Items are         *)
(* numbered in the order publish() hands them to the queue.                *)
(***************************************************************************)
queue_size == 30

resume == "resume"

shutdown == "shutdown"

user_shutdown == "user_shutdown"

\* shared_publisher_queue::produce: appends and tells whether the consumer
\* has to be woken up, which is when the queue was empty
queue_produce(q, x) == [queue |-> Append(q, x), wake |-> q = <<>>]

\* shared_publisher_queue::consume: hands the first num items to the callback
queue_consume(q, num) ==
  LET n == IF num < Len(q) THEN num ELSE Len(q)
  IN [items |-> SubSeq(q, 1, n), queue |-> SubSeq(q, n + 1, Len(q))]

NewPublisher == [worker_ |-> TRUE, drop_on_destruction_ |-> FALSE,
                 destroyed |-> FALSE]

NewWorker == [shutting_down |-> FALSE, has_behavior |-> TRUE,
              at_end |-> FALSE, status |-> "running"]

drop_all_on_destruction(p) == [p EXCEPT !.drop_on_destruction_ = TRUE]

\* publisher::publish(data): [queue, out], out the messages sent
publish(q, x) ==
  LET r == queue_produce(q, x)
  IN [queue |-> r.queue, out |-> IF r.wake THEN <<resume>> ELSE <<>>]

\* shared_publisher_queue::produce(topic, first, last): appends the range
queue_produce_range(q, xs) == [queue |-> q \o xs, wake |-> q = <<>>]

\* a chunk that ends one item beyond the capacity
chunk_end_over_capacity(i, e, t) == i + Min(e - i, t + 1)

\* auto j = i + std::min(std::distance(i, e), t), on positions 0..e
chunk_end(i, e, t) == i + Min(e - i, t)

\* the loop of publisher::publish(std::vector<data>) from position i on,
\* with r what the iterations before have done: [queue, out, chunks]
RECURSIVE publish_loop(_, _, _, _)
publish_loop(r, xs, i, t) ==
  IF i = Len(xs) THEN r
  ELSE LET j == chunk_end(i, Len(xs), t)
           p == queue_produce_range(r.queue, SubSeq(xs, i + 1, j))
       IN publish_loop([queue |-> p.queue,
                        out |-> r.out \o (IF p.wake THEN <<resume>> ELSE <<>>),
                        chunks |-> Append(r.chunks, SubSeq(xs, i + 1, j))],
                       xs, j, t)

\* publisher::publish(std::vector<data>) on a queue of capacity t:
\* [queue, out, chunks], chunks the ranges handed to produce
publish_batch(q, xs, t) ==
  publish_loop([queue |-> q, out |-> <<>>, chunks |-> <<>>], xs, 0, t)

\* publisher::reset without the test of the worker handle
reset_unguarded(p) ==
  [pub |-> [p EXCEPT !.worker_ = FALSE],
   out |-> IF ~p.drop_on_destruction_ THEN <<shutdown>>
           ELSE <<user_shutdown>>]

\* publisher::reset: [pub, out]
reset(p) ==
  IF ~p.worker_ THEN [pub |-> p, out |-> <<>>]
  ELSE [pub |-> [p EXCEPT !.worker_ = FALSE],
        out |-> IF ~p.drop_on_destruction_ THEN <<shutdown>>
                ELSE <<user_shutdown>>]

\* the predicate of the stream source that ends the stream on shutdown
\* alone, whatever the queue still holds
stream_done_on_shutdown(w, q) == w.shutting_down

\* the third callback of attach_stream_source: the stream is done
stream_done(w, q) == w.shutting_down /\ q = <<>>

\* stream_source::generate_messages with the callbacks of publisher_worker:
\* pulls as many items as the downstream buffer has room for (cr), then asks
\* whether the stream is done.  [worker, queue, credit, pushed]
generate_messages(w, q, cr, out) ==
  IF w.at_end \/ cr = 0
  THEN [worker |-> w, queue |-> q, credit |-> cr, pushed |-> out]
  ELSE LET c == queue_consume(q, cr)
       IN [worker |-> [w EXCEPT !.at_end = stream_done(w, c.queue)],
           queue |-> c.queue,
           credit |-> cr - Len(c.items),
           pushed |-> out \o c.items]

\* an actor without behavior whose stream has ended terminates
Finished(r) ==
  [r EXCEPT !.worker.status =
     IF r.worker.at_end /\ ~r.worker.has_behavior THEN "done" ELSE @]

\* the handler for atom::resume
resume_handler(w, q, cr, out) == generate_messages(w, q, cr, out)

\* the handler for atom::shutdown
shutdown_handler(w, q, cr, out) ==
  generate_messages([w EXCEPT !.shutting_down = TRUE,
                              !.has_behavior = FALSE], q, cr, out)

\* the worker takes msg from its mailbox: an exit message kills it, a
\* message it has no handler for is dropped
worker_handle(w, q, cr, out, msg) ==
  IF msg = user_shutdown
  THEN [worker |-> [w EXCEPT !.status = "killed"], queue |-> q,
        credit |-> cr, pushed |-> out]
  ELSE IF ~w.has_behavior
  THEN [worker |-> w, queue |-> q, credit |-> cr, pushed |-> out]
  ELSE IF msg = resume THEN Finished(resume_handler(w, q, cr, out))
  ELSE Finished(shutdown_handler(w, q, cr, out))

\* a call of the publisher's interface: op with the state it leaves and
\* the messages it sent to the worker
PublisherCall(op, p, q, sent) ==
  /\ pub' = p
  /\ queue' = q
  /\ mailbox' = mailbox \o sent
  /\ pub_out' = sent
  /\ pub_call' = [op |-> op, n |-> pub_call.n + 1,
                  resets |-> pub_call.resets
                             + (IF op \in {"reset", "destroy"} THEN 1 ELSE 0),
                  drops |-> pub_call.drops
                            + (IF op = "drop_all_on_destruction" THEN 1
                               ELSE 0),
                  items |-> pub_call.items
                            + (IF op = "publish" THEN 1 ELSE 0)]
  /\ UNCHANGED <<worker, credit, pushed, batch>>

Publish ==
  /\ ~pub.destroyed
  /\ pub.worker_
  /\ pub_call.n < MaxCalls
  /\ Len(queue) < queue_size
  /\ LET r == publish(queue, pub_call.items + 1)
     IN PublisherCall("publish", pub, r.queue, r.out)
  /\ UNCHANGED <<chanvars, mvars, addrvars, epvars>>

\* publish(xs) with a vector of n items, numbered on from those of the
\* batches before
PublishBatch ==
  /\ ~pub.destroyed
  /\ pub.worker_
  /\ batch.n < MaxBatchCalls
  /\ \E n \in 0..MaxBatch :
       LET xs == [k \in 1..n |-> batch.items + k]
           r == publish_batch(queue, xs, queue_size)
       IN /\ queue' = r.queue
          /\ mailbox' = mailbox \o r.out
          /\ pub_out' = r.out
          /\ batch' = [xs |-> xs, chunks |-> r.chunks, n |-> batch.n + 1,
                       items |-> batch.items + n]
  /\ UNCHANGED <<pub, pub_call, worker, credit, pushed, chanvars, mvars,
                 addrvars, epvars>>

DropAllOnDestruction ==
  /\ ~pub.destroyed
  /\ pub.worker_
  /\ pub_call.n < MaxCalls
  /\ PublisherCall("drop_all_on_destruction", drop_all_on_destruction(pub),
                   queue, <<>>)
  /\ UNCHANGED <<chanvars, mvars, addrvars, epvars>>

Reset ==
  /\ ~pub.destroyed
  /\ pub_call.n < MaxCalls
  /\ LET r == reset(pub)
     IN PublisherCall("reset", r.pub, queue, r.out)
  /\ UNCHANGED <<chanvars, mvars, addrvars, epvars>>

\* ~publisher
Destroy ==
  /\ ~pub.destroyed
  /\ pub_call.n < MaxCalls
  /\ LET r == reset(pub)
     IN PublisherCall("destroy", [r.pub EXCEPT !.destroyed = TRUE], queue,
                      r.out)
  /\ UNCHANGED <<chanvars, mvars, addrvars, epvars>>

WorkerSet(r) ==
  /\ worker' = r.worker
  /\ queue' = r.queue
  /\ credit' = r.credit
  /\ pushed' = r.pushed

WorkerReceive ==
  /\ worker.status = "running"
  /\ mailbox # <<>>
  /\ WorkerSet(worker_handle(worker, queue, credit, pushed, Head(mailbox)))
  /\ mailbox' = Tail(mailbox)
  /\ UNCHANGED <<pub, pub_out, pub_call, batch, chanvars, mvars, addrvars,
                 epvars>>

\* the core grants room for n more items and the stream manager pushes
AckBatch ==
  /\ worker.status = "running"
  /\ \E n \in 1..(MaxCredit - credit) :
       WorkerSet(Finished(generate_messages(worker, queue, credit + n,
                                            pushed)))
  /\ UNCHANGED <<mailbox, pub, pub_out, pub_call, batch, chanvars, mvars,
                 addrvars, epvars>>

InitPublisher ==
  /\ pub = NewPublisher
  /\ pub_out = <<>>
  /\ pub_call = [op |-> "publisher", n |-> 0, resets |-> 0, drops |-> 0,
                 items |-> 0]
  /\ queue = <<>>
  /\ mailbox = <<>>
  /\ worker = NewWorker
  /\ credit = 0
  /\ pushed = <<>>
  /\ batch = [xs |-> <<>>, chunks |-> <<>>, n |-> 0, items |-> 0]

(***************************************************************************)
(* Endpoints, as the ssl suite sets them up and uses them: four endpoints  *)
(* that differ in their TLS credentials, listen, peer, one subscriber per  *)
(* endpoint and endpoint::publish.  A topic is the sequence of its path    *)
(* components; messages are numbered in the order they are published.      *)
(***************************************************************************)
Endpoints == {"mercury_auth", "venus_auth", "earth_no_auth",
              "earth_wrong_auth"}

\* the cert_id of make_config
cert_id ==
  [e \in Endpoints |->
     CASE e = "mercury_auth" -> "1"
       [] e = "venus_auth" -> "2"
       [] e = "earth_no_auth" -> ""
       [] e = "earth_wrong_auth" -> "self-signed"]

\* the certificates ca.pem has signed
SignedByCA == {"1", "2"}

\* the topics a subscriber is made with, and the topics of messages
Filters == {<<"broker", "test">>, <<"broker">>}

Topics == {<<"broker", "test">>, <<"other">>}

\* the endpoints the suite makes a subscriber on and publishes on: the
\* other two never get a peer
Users == {"mercury_auth", "venus_auth"}

prefix_of(t, u) == Len(t) <= Len(u) /\ \A k \in 1..Len(t) : t[k] = u[k]

\* the subscriber of endpoint e takes a message of topic t
Subscribed(e, t) == e \in Users /\ \E f \in filters[e] : prefix_of(f, t)

\* one attempt to connect where any certificate is taken for good
connect_any_certificate(a, b) == (cert_id[a] = "") = (cert_id[b] = "")

\* one attempt to connect: endpoints without credentials talk in the clear,
\* endpoints with credentials accept only a certificate the CA has signed
connect(a, b) ==
  IF cert_id[a] = "" /\ cert_id[b] = "" THEN TRUE
  ELSE cert_id[a] \in SignedByCA /\ cert_id[b] \in SignedByCA

PeerErrors == {"peer_unavailable", "peer_incompatible"}

\* endpoint::publish that also serves the subscriber of the publishing
\* endpoint
publish_to_all(e, m) ==
  {[to |-> p, msg |-> m] :
     p \in {e} \cup {q \in Endpoints : {e, q} \in peerings}}

\* endpoint::publish on e: one copy of m towards every peer of e
endpoint_publish(e, m) ==
  {[to |-> p, msg |-> m] : p \in {q \in Endpoints : {e, q} \in peerings}}

MakeSubscriber ==
  \E e \in Users, t \in Filters :
    /\ filters[e] = {}
    /\ filters' = [filters EXCEPT ![e] = {t}]
    /\ UNCHANGED <<listening, peerings, inbox, polled, wire, sent_log,
                   peer_result, chanvars, mvars, addrvars, pubvars>>

Listen ==
  \E e \in Endpoints :
    /\ e \notin listening
    /\ listening' = listening \cup {e}
    /\ UNCHANGED <<peerings, filters, inbox, polled, wire, sent_log,
                   peer_result, chanvars, mvars, addrvars, pubvars>>

\* a.peer(b, retry): the first attempt
Peer ==
  \E a \in Endpoints, b \in listening, retry \in {0, 1} :
    /\ a # b
    /\ {a, b} \notin peerings
    /\ peer_result.pending = FALSE
    /\ IF connect(a, b)
       THEN /\ peerings' = peerings \cup {{a, b}}
            /\ peer_result' = [from |-> a, to |-> b,
                               retry |-> retry, attempts |-> 1,
                               pending |-> FALSE, ok |-> TRUE,
                               err |-> "none"]
       ELSE /\ UNCHANGED peerings
            /\ \E err \in PeerErrors :
                 peer_result' = [from |-> a, to |-> b,
                                 retry |-> retry, attempts |-> 1,
                                 pending |-> retry # 0, ok |-> FALSE,
                                 err |-> err]
    /\ UNCHANGED <<listening, filters, inbox, polled, wire, sent_log,
                   chanvars, mvars, addrvars, pubvars>>

\* a peer call with a retry interval tries again, or is given up
PeerRetry ==
  /\ peer_result.pending
  /\ \/ /\ peer_result.attempts < MaxAttempts
        /\ peer_result' = [peer_result EXCEPT !.attempts = @ + 1]
     \/ peer_result' = [peer_result EXCEPT !.pending = FALSE]
  /\ UNCHANGED <<listening, peerings, filters, inbox, polled, wire, sent_log,
                 chanvars, mvars, addrvars, pubvars>>

EndpointPublish ==
  \E e \in Users, t \in Topics :
    /\ Len(sent_log) < MaxPublished
    /\ LET m == [id |-> Len(sent_log) + 1, topic |-> t]
       IN /\ wire' = wire \cup endpoint_publish(e, m)
          /\ sent_log' =
               Append(sent_log,
                      [from |-> e, msg |-> m,
                       to |-> {q \in Endpoints : /\ {e, q} \in peerings
                                                 /\ Subscribed(q, t)
                                                 /\ Subscribed(e, t)}])
    /\ UNCHANGED <<listening, peerings, filters, inbox, polled, peer_result,
                   chanvars, mvars, addrvars, pubvars>>

\* a copy arrives: the subscriber's queue takes it if its filter matches
Deliver ==
  \E c \in wire :
    /\ wire' = wire \ {c}
    /\ inbox' = IF Subscribed(c.to, c.msg.topic)
                THEN [inbox EXCEPT ![c.to] = Append(@, c.msg)]
                ELSE inbox
    /\ UNCHANGED <<listening, peerings, filters, polled, sent_log,
                   peer_result, chanvars, mvars, addrvars, pubvars>>

\* subscriber::get: the next message of the queue
Get ==
  \E e \in Users :
    /\ inbox[e] # <<>>
    /\ polled' = [polled EXCEPT ![e] = Append(@, Head(inbox[e]))]
    /\ inbox' = [inbox EXCEPT ![e] = Tail(@)]
    /\ UNCHANGED <<listening, peerings, filters, wire, sent_log, peer_result,
                   chanvars, mvars, addrvars, pubvars>>

InitEndpoints ==
  /\ listening = {}
  /\ peerings = {}
  /\ filters = [e \in Users |-> {}]
  /\ inbox = [e \in Users |-> <<>>]
  /\ polled = [e \in Users |-> <<>>]
  /\ wire = {}
  /\ sent_log = <<>>
  /\ peer_result = [from |-> "none", to |-> "none", retry |-> 0,
                    attempts |-> 0, pending |-> FALSE, ok |-> FALSE,
                    err |-> "none"]

InitLib ==
  /\ InitAddress({v4_mapped_prefix \o <<192, 168, 1, 2>>}, {TRUE})
  /\ InitPublisher
  /\ InitEndpoints

(***************************************************************************)
(* The storage backend, as the master consumes it: every call may fail     *)
(* (f names the calls that fail in this handler) and a failed call leaves  *)
(* the backend as it was.                                                  *)
(***************************************************************************)
Call(op, args, res) == [e |-> "backend", op |-> op, args |-> args, res |-> res]

EmptyMap == [k \in {} |-> None]

Without(st, key) == [k \in (DOMAIN st) \ {key} |-> st[k]]
With(st, key, value, expiry) ==
  [k \in (DOMAIN st) \cup {key} |->
     IF k = key THEN [value |-> value, expiry |-> expiry] ELSE st[k]]

backend_get(st, key, f) ==
  IF "get" \in f THEN Err("backend_failure")
  ELSE IF key \in DOMAIN st THEN Ok(st[key].value) ELSE Err("no_such_key")

backend_get_again(st, key, f) ==
  IF "get_again" \in f THEN Err("backend_failure")
  ELSE IF key \in DOMAIN st THEN Ok(st[key].value) ELSE Err("no_such_key")

backend_exists(st, key, f) ==
  IF "exists" \in f THEN Err("backend_failure") ELSE Ok(key \in DOMAIN st)

backend_put(st, key, value, expiry, f) ==
  IF "put" \in f THEN [res |-> Err("backend_failure"), store |-> st]
  ELSE [res |-> Ok(TRUE), store |-> With(st, key, value, expiry)]

backend_add(st, key, value, init_type, expiry, f) ==
  IF "add" \in f THEN [res |-> Err("backend_failure"), store |-> st]
  ELSE IF key \in DOMAIN st
  THEN [res |-> Ok(TRUE), store |-> With(st, key, st[key].value + value, expiry)]
  ELSE [res |-> Ok(TRUE), store |-> With(st, key, 0 + value, expiry)]

backend_subtract(st, key, value, expiry, f) ==
  IF "subtract" \in f THEN [res |-> Err("backend_failure"), store |-> st]
  ELSE IF key \in DOMAIN st
  THEN [res |-> Ok(TRUE), store |-> With(st, key, st[key].value - value, expiry)]
  ELSE [res |-> Err("no_such_key"), store |-> st]

backend_erase(st, key, f) ==
  IF "erase" \in f THEN [res |-> Err("backend_failure"), store |-> st]
  ELSE [res |-> Ok(TRUE), store |-> Without(st, key)]

backend_keys(st, f) ==
  IF "keys" \in f THEN Err("backend_failure")
  ELSE Ok(SelectSeq(KeyOrder, LAMBDA k : k \in DOMAIN st))

backend_clear(st, f) ==
  IF "clear" \in f THEN [res |-> Err("backend_failure"), store |-> st]
  ELSE [res |-> Ok(TRUE), store |-> EmptyMap]

backend_snapshot(st, f) ==
  IF "snapshot" \in f THEN Err("backend_failure")
  ELSE Ok([k \in DOMAIN st |-> st[k].value])

\* expire(key, now): true when the key is present and its expiry <= now; the
\* key is then removed.
backend_expire(st, key, ts, f) ==
  IF "expire" \in f THEN [res |-> Err("backend_failure"), store |-> st]
  ELSE IF key \in DOMAIN st /\ st[key].expiry # None /\ st[key].expiry[1] <= ts
  THEN [res |-> Ok(TRUE), store |-> Without(st, key)]
  ELSE [res |-> Ok(FALSE), store |-> st]

(***************************************************************************)
(* Commands, store events and what a handler does to the outside           *)
(***************************************************************************)
put(key, value, expiry, publisher) ==
  [type |-> "put", key |-> key, value |-> value, expiry |-> expiry,
   publisher |-> publisher]
put_unique(key, value, expiry, publisher, who, req_id) ==
  [type |-> "put_unique", key |-> key, value |-> value, expiry |-> expiry,
   publisher |-> publisher, who |-> who, req_id |-> req_id]
erase(key, publisher) ==
  [type |-> "erase", key |-> key, publisher |-> publisher]
expire_cmd(key, publisher) ==
  [type |-> "expire", key |-> key, publisher |-> publisher]
add_cmd(key, value, init_type, expiry, publisher) ==
  [type |-> "add", key |-> key, value |-> value, init_type |-> init_type,
   expiry |-> expiry, publisher |-> publisher]
subtract(key, value, expiry, publisher) ==
  [type |-> "subtract", key |-> key, value |-> value, expiry |-> expiry,
   publisher |-> publisher]
clear(publisher) == [type |-> "clear", publisher |-> publisher]
snapshot(remote_core, remote_clone) ==
  [type |-> "snapshot", remote_core |-> remote_core,
   remote_clone |-> remote_clone]
snapshot_sync(remote_clone) ==
  [type |-> "snapshot_sync", remote_clone |-> remote_clone]
set_cmd(ss) == [type |-> "set", state |-> ss]

\* publisher_id{self->node(), self->id()}
MasterId == "master"

\* self->send(dst, msg)
Send(dst, msg) == [e |-> "send", to |-> dst, msg |-> msg]
\* self->monitor(hdl)
Monitor(hdl) == [e |-> "monitor", hdl |-> hdl]

\* emit_insert_event, emit_update_event, emit_erase_event, emit_expire_event
emit_insert_event(x) ==
  [e |-> "emit", event |-> "insert", key |-> x.key, value |-> x.value,
   expiry |-> x.expiry, publisher |-> x.publisher]
emit_update_event(x, old_value) ==
  [e |-> "emit", event |-> "update", key |-> x.key, old |-> old_value,
   value |-> x.value, expiry |-> x.expiry, publisher |-> x.publisher]
emit_erase_event(key, publisher) ==
  [e |-> "emit", event |-> "erase", key |-> key, publisher |-> publisher]
emit_expire_event(x) ==
  [e |-> "emit", event |-> "expire", key |-> x.key, publisher |-> x.publisher]

\* master_state::broadcast: the command goes to the core, to be published on
\* the clones topic.
broadcast(x) == [e |-> "publish", topic |-> "clones", cmd |-> x]

\* broadcast_cmd_to_clones
broadcast_cmd_to_clones(cmd) == broadcast(cmd)

\* master_state::remind: clock->send_later(self, expiry, (expire, key))
remind(expiry, key) == [e |-> "send_later", after |-> expiry, key |-> key]

to_opt_timestamp(ts, span) == IF span # None THEN Some(ts + span[1]) ELSE None

\* What a handler leaves: the backend, the clones, whether the master still
\* runs, and its calls and sends in order.
Left(st, cl, out) == [store |-> st, clones |-> cl, status |-> "running",
                      out |-> out]
Died(st, cl, out) == [store |-> st, clones |-> cl, status |-> "died",
                      out |-> out]

\* master_state::exists
\* exists that reports every key absent.
exists_absent(st, key, f) == FALSE

exists(st, key, f) ==
  LET res == backend_exists(st, key, f)
  IN IF res.ok THEN res.val ELSE FALSE

(***************************************************************************)
(* master_state::operator(): one operator per command. m is the master     *)
(* [store, clones], ts the clock's now, f the backend calls that fail.     *)
(***************************************************************************)
\* put that emits an insert event whatever get returned.
put_command_insert(m, ts, x, f) ==
  LET et == to_opt_timestamp(ts, x.expiry)
      old_value == backend_get(m.store, x.key, f)
      result == backend_put(m.store, x.key, x.value, et, f)
      calls == <<Call("get", <<x.key>>, old_value),
                 Call("put", <<x.key, x.value, et>>, result.res)>>
  IN IF ~result.res.ok THEN Left(result.store, m.clones, calls)
     ELSE Left(result.store, m.clones,
               calls
                 \o (IF x.expiry # None THEN <<remind(x.expiry[1], x.key)>>
                     ELSE <<>>)
                 \o <<emit_insert_event(x)>>
                 \o <<broadcast_cmd_to_clones(x)>>)

put_command(m, ts, x, f) ==
  LET et == to_opt_timestamp(ts, x.expiry)
      old_value == backend_get(m.store, x.key, f)
      result == backend_put(m.store, x.key, x.value, et, f)
      calls == <<Call("get", <<x.key>>, old_value),
                 Call("put", <<x.key, x.value, et>>, result.res)>>
  IN IF ~result.res.ok THEN Left(result.store, m.clones, calls)
     ELSE Left(result.store, m.clones,
               calls
                 \o (IF x.expiry # None THEN <<remind(x.expiry[1], x.key)>>
                     ELSE <<>>)
                 \o <<IF old_value.ok THEN emit_update_event(x, old_value.val)
                      ELSE emit_insert_event(x)>>
                 \o <<broadcast_cmd_to_clones(x)>>)

\* put_unique that broadcasts the put_unique command itself.
put_unique_command_as_is(m, ts, x, f) ==
  LET found == backend_exists(m.store, x.key, f)
      et == to_opt_timestamp(ts, x.expiry)
      res == backend_put(m.store, x.key, x.value, et, f)
  IN IF exists(m.store, x.key, f)
     THEN Left(m.store, m.clones,
               <<Call("exists", <<x.key>>, found),
                 Send(x.who, <<FALSE, x.req_id>>)>>)
     ELSE IF ~res.res.ok
     THEN Left(res.store, m.clones,
               <<Call("exists", <<x.key>>, found),
                 Call("put", <<x.key, x.value, et>>, res.res),
                 Send(x.who, <<FALSE, x.req_id>>)>>)
     ELSE Left(res.store, m.clones,
               <<Call("exists", <<x.key>>, found),
                 Call("put", <<x.key, x.value, et>>, res.res),
                 Send(x.who, <<TRUE, x.req_id>>)>>
                 \o (IF x.expiry # None THEN <<remind(x.expiry[1], x.key)>>
                     ELSE <<>>)
                 \o <<emit_insert_event(x)>>
                 \o <<broadcast_cmd_to_clones(x)>>)

put_unique_command(m, ts, x, f) ==
  LET found == backend_exists(m.store, x.key, f)
      et == to_opt_timestamp(ts, x.expiry)
      res == backend_put(m.store, x.key, x.value, et, f)
      cmd == put(x.key, x.value, x.expiry, x.publisher)
  IN IF exists(m.store, x.key, f)
     THEN Left(m.store, m.clones,
               <<Call("exists", <<x.key>>, found),
                 Send(x.who, <<FALSE, x.req_id>>)>>)
     ELSE IF ~res.res.ok
     THEN Left(res.store, m.clones,
               <<Call("exists", <<x.key>>, found),
                 Call("put", <<x.key, x.value, et>>, res.res),
                 Send(x.who, <<FALSE, x.req_id>>)>>)
     ELSE Left(res.store, m.clones,
               <<Call("exists", <<x.key>>, found),
                 Call("put", <<x.key, x.value, et>>, res.res),
                 Send(x.who, <<TRUE, x.req_id>>)>>
                 \o (IF x.expiry # None THEN <<remind(x.expiry[1], x.key)>>
                     ELSE <<>>)
                 \o <<emit_insert_event(x)>>
                 \o <<broadcast_cmd_to_clones(cmd)>>)

\* erase that does not tell the clones.
erase_command_silent(m, ts, x, f) ==
  LET res == backend_erase(m.store, x.key, f)
      calls == <<Call("erase", <<x.key>>, res.res)>>
  IN IF ~res.res.ok THEN Left(res.store, m.clones, calls)
     ELSE Left(res.store, m.clones,
               calls \o <<emit_erase_event(x.key, x.publisher)>>)

erase_command(m, ts, x, f) ==
  LET res == backend_erase(m.store, x.key, f)
      calls == <<Call("erase", <<x.key>>, res.res)>>
  IN IF ~res.res.ok THEN Left(res.store, m.clones, calls)
     ELSE Left(res.store, m.clones,
               calls \o <<emit_erase_event(x.key, x.publisher),
                          broadcast_cmd_to_clones(x)>>)

\* add whose broadcast put keeps the expiry of the add command.
add_command_keep_expiry(m, ts, x, f) ==
  LET old_value == backend_get(m.store, x.key, f)
      et == to_opt_timestamp(ts, x.expiry)
      res == backend_add(m.store, x.key, x.value, x.init_type, et, f)
      val == backend_get_again(res.store, x.key, f)
      cmd == put(x.key, val.val, x.expiry, x.publisher)
      calls1 == <<Call("get", <<x.key>>, old_value),
                  Call("add", <<x.key, x.value, x.init_type, et>>, res.res)>>
      calls2 == calls1 \o <<Call("get", <<x.key>>, val)>>
  IN IF ~res.res.ok THEN Left(res.store, m.clones, calls1)
     ELSE IF ~val.ok THEN Left(res.store, m.clones, calls2)
     ELSE Left(res.store, m.clones,
               calls2
                 \o (IF x.expiry # None THEN <<remind(x.expiry[1], x.key)>>
                     ELSE <<>>)
                 \o <<IF old_value.ok
                      THEN emit_update_event(cmd, old_value.val)
                      ELSE emit_insert_event(cmd)>>
                 \o <<broadcast_cmd_to_clones(cmd)>>)

add_command(m, ts, x, f) ==
  LET old_value == backend_get(m.store, x.key, f)
      et == to_opt_timestamp(ts, x.expiry)
      res == backend_add(m.store, x.key, x.value, x.init_type, et, f)
      val == backend_get_again(res.store, x.key, f)
      cmd == put(x.key, val.val, None, x.publisher)
      calls1 == <<Call("get", <<x.key>>, old_value),
                  Call("add", <<x.key, x.value, x.init_type, et>>, res.res)>>
      calls2 == calls1 \o <<Call("get", <<x.key>>, val)>>
  IN IF ~res.res.ok THEN Left(res.store, m.clones, calls1)
     ELSE IF ~val.ok THEN Left(res.store, m.clones, calls2)
     ELSE Left(res.store, m.clones,
               calls2
                 \o (IF x.expiry # None THEN <<remind(x.expiry[1], x.key)>>
                     ELSE <<>>)
                 \o <<IF old_value.ok
                      THEN emit_update_event(cmd, old_value.val)
                      ELSE emit_insert_event(cmd)>>
                 \o <<broadcast_cmd_to_clones(cmd)>>)

\* subtract that goes on when the key has no value.
subtract_command_unchecked(m, ts, x, f) ==
  LET et == to_opt_timestamp(ts, x.expiry)
      old_value == backend_get(m.store, x.key, f)
      res == backend_subtract(m.store, x.key, x.value, et, f)
      cmd == put(x.key, 0, None, x.publisher)
      calls2 == <<Call("get", <<x.key>>, old_value),
                  Call("subtract", <<x.key, x.value, et>>, res.res)>>
  IN Left(res.store, m.clones,
          calls2 \o <<emit_update_event(cmd, 0), broadcast_cmd_to_clones(cmd)>>)

subtract_command(m, ts, x, f) ==
  LET et == to_opt_timestamp(ts, x.expiry)
      old_value == backend_get(m.store, x.key, f)
      res == backend_subtract(m.store, x.key, x.value, et, f)
      val == backend_get_again(res.store, x.key, f)
      cmd == put(x.key, val.val, None, x.publisher)
      calls1 == <<Call("get", <<x.key>>, old_value)>>
      calls2 == calls1 \o <<Call("subtract", <<x.key, x.value, et>>, res.res)>>
      calls3 == calls2 \o <<Call("get", <<x.key>>, val)>>
  IN IF ~old_value.ok THEN Left(m.store, m.clones, calls1)
     ELSE IF ~res.res.ok THEN Left(res.store, m.clones, calls2)
     ELSE IF ~val.ok THEN Left(res.store, m.clones, calls3)
     ELSE Left(res.store, m.clones,
               calls3
                 \o (IF x.expiry # None THEN <<remind(x.expiry[1], x.key)>>
                     ELSE <<>>)
                 \o <<emit_update_event(cmd, old_value.val)>>
                 \o <<broadcast_cmd_to_clones(cmd)>>)

\* clones.emplace(address, clone): an entry that is there stays.
Emplace(cl, addr, clone) ==
  IF addr \in DOMAIN cl THEN cl
  ELSE [a \in (DOMAIN cl) \cup {addr} |-> IF a = addr THEN clone ELSE cl[a]]

\* snapshot that sends the set before it broadcasts the sync point.
snapshot_command_set_first(m, ts, x, f) ==
  LET ss == backend_snapshot(m.store, f)
      calls == <<Call("snapshot", <<>>, ss)>>
  IN IF x.remote_core = Null \/ x.remote_clone = Null
     THEN Left(m.store, m.clones, <<>>)
     ELSE IF ~ss.ok THEN Died(m.store, m.clones, calls)
     ELSE Left(m.store, Emplace(m.clones, x.remote_core, x.remote_clone),
               calls \o <<Monitor(x.remote_core),
                          Send(x.remote_clone, set_cmd(ss.val)),
                          broadcast_cmd_to_clones(snapshot_sync(x.remote_clone))>>)

snapshot_command(m, ts, x, f) ==
  LET ss == backend_snapshot(m.store, f)
      calls == <<Call("snapshot", <<>>, ss)>>
  IN IF x.remote_core = Null \/ x.remote_clone = Null
     THEN Left(m.store, m.clones, <<>>)
     ELSE IF ~ss.ok THEN Died(m.store, m.clones, calls)
     ELSE Left(m.store, Emplace(m.clones, x.remote_core, x.remote_clone),
               calls \o <<Monitor(x.remote_core),
                          broadcast_cmd_to_clones(snapshot_sync(x.remote_clone)),
                          Send(x.remote_clone, set_cmd(ss.val))>>)

clear_command(m, ts, x, f) ==
  LET keys_res == backend_keys(m.store, f)
      res == backend_clear(m.store, f)
      calls1 == <<Call("keys", <<>>, keys_res)>>
      emits == [i \in 1..Len(keys_res.val) |->
                  emit_erase_event(keys_res.val[i], x.publisher)]
      calls2 == calls1 \o emits \o <<Call("clear", <<>>, res.res)>>
  IN IF ~keys_res.ok THEN Left(m.store, m.clones, calls1)
     ELSE IF ~res.res.ok THEN Died(res.store, m.clones, calls2)
     ELSE Left(res.store, m.clones, calls2 \o <<broadcast_cmd_to_clones(x)>>)

\* operator()(none), (expire_command&), (snapshot_sync_command&),
\* (set_command&): logged, nothing else.
ignored_command(m, ts, x, f) == Left(m.store, m.clones, <<>>)

\* master_state::command: std::visit(*this, cmd)
command(m, ts, x, f) ==
  CASE x.type = "put" -> put_command(m, ts, x, f)
    [] x.type = "put_unique" -> put_unique_command(m, ts, x, f)
    [] x.type = "erase" -> erase_command(m, ts, x, f)
    [] x.type = "add" -> add_command(m, ts, x, f)
    [] x.type = "subtract" -> subtract_command(m, ts, x, f)
    [] x.type = "snapshot" -> snapshot_command(m, ts, x, f)
    [] x.type = "clear" -> clear_command(m, ts, x, f)
    [] OTHER -> ignored_command(m, ts, x, f)

\* master_state::expire, the handler of the (expire, key) timer message
\* expire that tells the clones whatever the backend answered.
expire_always(m, ts, key, f) ==
  LET result == backend_expire(m.store, key, ts, f)
      calls == <<Call("expire", <<key, ts>>, result.res)>>
      cmd == expire_cmd(key, MasterId)
  IN Left(result.store, m.clones,
          calls \o <<emit_expire_event(cmd), broadcast_cmd_to_clones(cmd)>>)

expire(m, ts, key, f) ==
  LET result == backend_expire(m.store, key, ts, f)
      calls == <<Call("expire", <<key, ts>>, result.res)>>
      cmd == expire_cmd(key, MasterId)
  IN IF ~result.res.ok THEN Left(result.store, m.clones, calls)
     ELSE IF ~result.res.val THEN Left(result.store, m.clones, calls)
     ELSE Left(result.store, m.clones,
               calls \o <<emit_expire_event(cmd),
                          broadcast_cmd_to_clones(cmd)>>)

(***************************************************************************)
(* The down handler and the queries of master_actor                        *)
(***************************************************************************)
\* The core the master was spawned with.
OwnCore == "core"

\* Exit reasons a down message may carry.
Reasons == {"user_shutdown", "unreachable"}

down_msg(source, reason) ==
  [type |-> "down", source |-> source, reason |-> reason]

\* self->quit(reason)
Quit(st, cl, reason) ==
  [store |-> st, clones |-> cl, status |-> "quit",
   out |-> <<[e |-> "quit", reason |-> reason]>>]

\* A down handler that forgets every clone when one core is down.
down_handler_forget_all(m, msg) ==
  IF msg.source = OwnCore THEN Quit(m.store, m.clones, msg.reason)
  ELSE Left(m.store, EmptyMap, <<>>)

\* set_down_handler([=](const caf::down_msg& msg) {...})
down_handler(m, msg) ==
  IF msg.source = OwnCore THEN Quit(m.store, m.clones, msg.reason)
  ELSE Left(m.store,
            [a \in (DOMAIN m.clones) \ {msg.source} |-> m.clones[a]], <<>>)

\* What a reply carries: a value or an error.
Data(v) == [kind |-> "data", val |-> v]
Error(code) == [kind |-> "error", code |-> code]

\* The response of a request handler (its return value).
Respond(msg) == [e |-> "respond", msg |-> msg]

to_caf_res(x) == IF x.ok THEN Data(x.val) ELSE Error(x.err)

\* get(key, aspect): the values of the model are integers, which have no
\* aspects.
backend_get_aspect(st, key, aspect, f) ==
  IF "get" \in f THEN Err("backend_failure")
  ELSE IF key \in DOMAIN st THEN Err("type_clash") ELSE Err("no_such_key")

\* What dereferencing an expected that holds an error may yield: either
\* boolean, or the end of the process.
Undefined == {"true", "false", "abort"}

keys_query(sel) == [type |-> "query", op |-> "keys", id |-> sel]
exists_query(key, sel) ==
  [type |-> "query", op |-> "exists", key |-> key, id |-> sel]
get_query(key, sel) ==
  [type |-> "query", op |-> "get", key |-> key, id |-> sel]
get_aspect_query(key, aspect, sel) ==
  [type |-> "query", op |-> "get_aspect", key |-> key, aspect |-> aspect,
   id |-> sel]

\* The reply with the request id, when the query has one.
WithId(q, content) ==
  IF q.id = None THEN Respond(content) ELSE Respond(<<content, q.id[1]>>)

\* (atom::get, atom::keys) and (atom::get, atom::keys, request_id)
get_keys(m, q, f) ==
  LET x == backend_keys(m.store, f)
  IN Left(m.store, m.clones,
          <<Call("keys", <<>>, x), WithId(q, to_caf_res(x))>>)

\* (atom::exists, key) and (atom::exists, key, request_id): *x is read
\* whether or not x holds a value.
exists_handler(m, q, f, u) ==
  LET x == backend_exists(m.store, q.key, f)
      call == Call("exists", <<q.key>>, x)
  IN IF x.ok THEN Left(m.store, m.clones, <<call, WithId(q, Data(x.val))>>)
     ELSE IF u = "abort" THEN Died(m.store, m.clones, <<call>>)
     ELSE Left(m.store, m.clones, <<call, WithId(q, Data(u = "true"))>>)

\* (atom::get, key) and (atom::get, key, request_id)
get_handler(m, q, f) ==
  LET x == backend_get(m.store, q.key, f)
  IN Left(m.store, m.clones,
          <<Call("get", <<q.key>>, x), WithId(q, to_caf_res(x))>>)

\* (atom::get, key, aspect) and (atom::get, key, aspect, request_id)
get_aspect_handler(m, q, f) ==
  LET x == backend_get_aspect(m.store, q.key, q.aspect, f)
  IN Left(m.store, m.clones,
          <<Call("get", <<q.key, q.aspect>>, x), WithId(q, to_caf_res(x))>>)

query(m, q, f, u) ==
  CASE q.op = "keys" -> get_keys(m, q, f)
    [] q.op = "exists" -> exists_handler(m, q, f, u)
    [] q.op = "get" -> get_handler(m, q, f)
    [] q.op = "get_aspect" -> get_aspect_handler(m, q, f)

(***************************************************************************)
(* Construction                                                            *)
(***************************************************************************)
NewProducer == [seq_ |-> 0, buf_ |-> <<>>, paths_ |-> <<>>]

NewConsumer ==
  [next_seq_ |-> 0, buf_ |-> <<>>, tick_ |-> 0, last_tick_seq_ |-> 0,
   idle_ticks_ |-> 0, ack_interval_ |-> 1, nack_timeout_ |-> 1]

\* the channel with no call made yet, its consumers being cs
InitChannelOf(cs) ==
  /\ producer = NewProducer
  /\ pout = <<>>
  /\ add_result = "nil"
  /\ produced = <<>>
  /\ rf_sent = FALSE
  /\ consumer = cs
  /\ cout = [h \in Handles |-> <<>>]
  /\ tick_threw = [h \in Handles |-> FALSE]
  /\ idle_run = [h \in Handles |-> 0]
  /\ delivered = [h \in Handles |-> <<>>]
  /\ gap_reported = [h \in Handles |-> {}]
  /\ net_c = [h \in Handles |-> {}]
  /\ net_p = {}

InitChannel == InitChannelOf([h \in Handles |-> NewConsumer])

\* master_state::init on an empty backend: expiries() is empty and no timer
\* is scheduled.
InitMaster ==
  /\ store = EmptyMap
  /\ clones = EmptyMap
  /\ status = "running"
  /\ now = 0
  /\ timers = EmptyBag
  /\ m_in = [kind |-> "unobserved", n |-> 0, cmd |-> [type |-> "none"],
            prev |-> [type |-> "none"]]
  /\ m_out = <<>>
  /\ failed = FALSE
  /\ stream = <<>>
  /\ clone_store = EmptyMap

Init == InitChannel /\ InitMaster /\ InitLib

vars == <<chanvars, mvars, libvars>>

IsRetransmitFailed(out) ==
  \E k \in 1..Len(out) : out[k].msg.type = "retransmit_failed"

(***************************************************************************)
(* SpecProd: a producer whose member functions are called with any         *)
(* arguments; its backend records what it is handed.                       *)
(***************************************************************************)
\* The lists a nack may carry: sorted, of up to two sequence numbers.
NackLists ==
  {<<>>} \cup {<<a>> : a \in 0..MaxProdSeq}
         \cup {<<a, b>> : a \in 0..MaxProdSeq, b \in 1..MaxProdSeq}

ProducerCall(r) ==
  /\ producer' = r.p
  /\ pout' = r.out
  /\ rf_sent' = (rf_sent \/ IsRetransmitFailed(r.out))
  /\ UNCHANGED <<cvars, nvars, hvars, mvars, libvars>>

ApiProduce ==
  /\ producer.seq_ < MaxProdSeq
  /\ \E content \in Payloads : ProducerCall(produce(producer, content))
  /\ UNCHANGED <<add_result, produced>>

ApiAdd ==
  \E hdl \in Handles :
    /\ ProducerCall(add(producer, hdl))
    /\ add_result' = add(producer, hdl).result
    /\ UNCHANGED produced

ApiHandleAck ==
  \E hdl \in Handles, seq \in 0..(MaxProdSeq + 1) :
    /\ ProducerCall(handle_ack(producer, hdl, seq))
    /\ UNCHANGED <<add_result, produced>>

ApiHandleNack ==
  \E hdl \in Handles, seqs \in NackLists :
    /\ \A k \in 1..(Len(seqs) - 1) : seqs[k] < seqs[k + 1]
    /\ ProducerCall(handle_nack(producer, hdl, seqs))
    /\ UNCHANGED <<add_result, produced>>

NextProd == ApiProduce \/ ApiAdd \/ ApiHandleAck \/ ApiHandleNack

SpecProd == Init /\ [][NextProd]_vars

(***************************************************************************)
(* SpecCons: a consumer whose owner calls its member functions with any    *)
(* arguments and receives retransmit_failed for any sequence number; its   *)
(* backend records what it is handed.                                      *)
(***************************************************************************)
ConsumerCall(h, r) ==
  /\ consumer' = [consumer EXCEPT ![h] = r.c]
  /\ delivered' = [delivered EXCEPT ![h] = @ \o r.consumed]
  /\ cout' = [cout EXCEPT ![h] = r.out]
  /\ tick_threw' = [tick_threw EXCEPT ![h] = r.threw]
  /\ UNCHANGED <<pvars, nvars, hvars, mvars, libvars>>

ApiHandleHandshake ==
  \E h \in ChanHandles : \E offset \in 0..MaxProdSeq :
    /\ ConsumerCall(h, handle_handshake(consumer[h], offset))
    /\ UNCHANGED gap_reported

ApiHandleEvent ==
  \E h \in ChanHandles : \E seq \in 1..MaxSeq : \E content \in Payloads :
    /\ ConsumerCall(h, handle_event(consumer[h], seq, content))
    /\ UNCHANGED gap_reported

ApiTick ==
  \E h \in ChanHandles :
    /\ \/ consumer[h].next_seq_ > consumer[h].last_tick_seq_
       \/ consumer[h].buf_ # <<>>
       \/ consumer[h].idle_ticks_ < MaxIdleTicks
    /\ ConsumerCall(h, tick(consumer[h]))
    /\ UNCHANGED gap_reported

\* channel::consumer has the members handle_handshake, handle_event and
\* tick: its owner has nothing to call with a retransmit_failed, and the
\* consumer stays as it is.
GetRetransmitFailed ==
  \E h \in ChanHandles : \E seq \in 1..MaxSeq :
    /\ ConsumerCall(h, [c |-> consumer[h], consumed |-> <<>>, out |-> <<>>,
                        threw |-> FALSE])
    /\ gap_reported' =
         [gap_reported EXCEPT
            ![h] = IF seq >= consumer[h].next_seq_ THEN @ \cup {seq} ELSE @]

NextCons ==
  \/ ApiHandleHandshake
  \/ ApiHandleEvent
  \/ ApiTick
  \/ GetRetransmitFailed

SpecCons == Init /\ [][NextCons]_vars

(***************************************************************************)
(* SpecTick: a consumer whose owner has set ack_interval and nack_timeout  *)
(* and then calls its member functions; ticks are not bounded, so that     *)
(* idle_ticks_ runs through its whole width.                               *)
(***************************************************************************)
MaxTickSeq == 2

MaxInterval == 2

\* consumer::ack_interval(value) and consumer::nack_timeout(value)
Configured(a, n) == [NewConsumer EXCEPT !.ack_interval_ = a,
                                        !.nack_timeout_ = n]

InitTick ==
  /\ \E a \in 1..MaxInterval : \E n \in 1..MaxInterval :
       InitChannelOf([h \in Handles |->
                        IF h \in ChanHandles THEN Configured(a, n)
                        ELSE NewConsumer])
  /\ InitMaster
  /\ InitLib

ConsumerCallRun(h, r, run) ==
  /\ consumer' = [consumer EXCEPT ![h] = r.c]
  /\ delivered' = [delivered EXCEPT ![h] = @ \o r.consumed]
  /\ cout' = [cout EXCEPT ![h] = r.out]
  /\ tick_threw' = [tick_threw EXCEPT ![h] = r.threw]
  /\ idle_run' = [idle_run EXCEPT ![h] = run]
  /\ UNCHANGED <<gap_reported, pvars, nvars, mvars, libvars>>

TickHandshake ==
  \E h \in ChanHandles : \E offset \in 0..(MaxTickSeq - 1) :
    ConsumerCallRun(h, handle_handshake(consumer[h], offset), idle_run[h])

TickEvent ==
  \E h \in ChanHandles : \E seq \in 1..MaxTickSeq :
    ConsumerCallRun(h, handle_event(consumer[h], seq, "a"), idle_run[h])

SendsNack(out) == \E k \in 1..Len(out) : out[k].type = "nack"

\* tick(); idle_run counts it unless next_seq_ has advanced or a nack went
\* out, and stops counting above the width of idle_ticks_
TickTick ==
  \E h \in ChanHandles :
    LET r == tick(consumer[h])
    IN ConsumerCallRun(h, r,
         IF consumer[h].next_seq_ > consumer[h].last_tick_seq_
            \/ SendsNack(r.out)
         THEN 0
         ELSE IF idle_run[h] < IdleTicksMod THEN idle_run[h] + 1
              ELSE idle_run[h])

NextTick ==
  \/ TickHandshake
  \/ TickEvent
  \/ TickTick

SpecTick == InitTick /\ [][NextTick]_vars

(***************************************************************************)
(* SpecChan: a producer and a consumer whose backends are a transport that *)
(* may drop, duplicate and reorder. A message sent stays in flight: the    *)
(* transport may deliver it at any later time, in any order, more than     *)
(* once, or never.                                                         *)
(***************************************************************************)
Transmit(net, out) ==
  [h \in Handles |->
     net[h] \cup {out[k].msg : k \in {j \in 1..Len(out) : out[j].to = h}}]

TransmitBack(net, h, out) ==
  net \cup {[from |-> h, msg |-> out[k]] : k \in 1..Len(out)}

ProducerStep(r) ==
  /\ producer' = r.p
  /\ net_c' = Transmit(net_c, r.out)
  /\ rf_sent' = (rf_sent \/ IsRetransmitFailed(r.out))
  /\ UNCHANGED <<pout, add_result, cvars, net_p, hvars, mvars, libvars>>

ConsumerStep(h, r) ==
  /\ consumer' = [consumer EXCEPT ![h] = r.c]
  /\ delivered' = [delivered EXCEPT ![h] = @ \o r.consumed]
  /\ net_p' = TransmitBack(net_p, h, r.out)
  /\ UNCHANGED <<cout, tick_threw, gap_reported, pvars, net_c, hvars, mvars,
                 libvars>>

ChanProduce ==
  /\ producer.seq_ < MaxSeq
  /\ \E content \in Payloads :
       /\ ProducerStep(produce(producer, content))
       /\ produced' = Append(produced, content)

ChanAdd ==
  \E hdl \in ChanHandles :
    /\ ProducerStep(add(producer, hdl))
    /\ UNCHANGED produced

ProducerReceive ==
  \E m \in net_p :
    /\ ProducerStep(IF m.msg.type = "cumulative_ack"
                    THEN handle_ack(producer, m.from, m.msg.seq)
                    ELSE handle_nack(producer, m.from, m.msg.seqs))
    /\ UNCHANGED produced

\* The consumer has no handler for retransmit_failed.
ConsumerReceive ==
  \E h \in ChanHandles : \E m \in net_c[h] :
    /\ m.type \in {"handshake", "event"}
    /\ ConsumerStep(h, IF m.type = "handshake"
                       THEN handle_handshake(consumer[h], m.first_seq)
                       ELSE handle_event(consumer[h], m.seq, m.content))

\* The periodic tick of the consumer's owner.
ConsumerTick ==
  \E h \in ChanHandles :
    /\ \/ consumer[h].next_seq_ > consumer[h].last_tick_seq_
       \/ consumer[h].buf_ # <<>>
       \/ consumer[h].idle_ticks_ < MaxIdleTicks
    /\ ConsumerStep(h, tick(consumer[h]))

NextChan ==
  \/ ChanProduce
  \/ ChanAdd
  \/ ProducerReceive
  \/ ConsumerReceive
  \/ ConsumerTick

SpecChan == Init /\ [][NextChan]_vars

(***************************************************************************)
(* The master as an actor: it handles local commands, commands of the      *)
(* remote command stream and expire timers.  What it publishes on the      *)
(* clones topic reaches, in order, a clone.                                *)
(***************************************************************************)
Requests == {<<"w1", 1>>, <<"w2", 2>>}

Commands(K) ==
  {put(k, v, t, p) : k \in K, v \in Values, t \in Expiries, p \in Publishers}
    \cup {put_unique(k, v, t, p, q[1], q[2]) :
            k \in K, v \in Values, t \in Expiries, p \in Publishers,
            q \in Requests}
    \cup {erase(k, p) : k \in K, p \in Publishers}
    \cup {add_cmd(k, d, "integer", t, p) :
            k \in K, d \in Operands, t \in Expiries, p \in Publishers}
    \cup {subtract(k, d, t, p) :
            k \in K, d \in Operands, t \in Expiries, p \in Publishers}
    \cup {clear(p) : p \in Publishers}
    \cup {snapshot(c, a) : c \in Cores \cup {Null}, a \in CloneActors \cup {Null}}
    \cup {[type |-> "none"]}
    \cup {snapshot_sync(a) : a \in CloneActors}

\* The backend calls a handler may make.
CallsOf(type) ==
  CASE type = "put" -> {"get", "put"}
    [] type = "put_unique" -> {"exists", "put"}
    [] type = "erase" -> {"erase"}
    [] type = "add" -> {"get", "add", "get_again"}
    [] type = "subtract" -> {"get", "subtract", "get_again"}
    [] type = "clear" -> {"keys", "clear"}
    [] type = "snapshot" -> {"snapshot"}
    [] OTHER -> {}

Published(out) == SelectSeq(out, LAMBDA o : o.e = "publish")
Reminders(out) == SelectSeq(out, LAMBDA o : o.e = "send_later")

RECURSIVE Scheduled(_, _)
Scheduled(rs, ts) ==
  IF rs = <<>> THEN EmptyBag
  ELSE SetToBag({[key |-> Head(rs).key, due |-> ts + Head(rs).after]})
         (+) Scheduled(Tail(rs), ts)

BackendFailed(out) ==
  \E i \in 1..Len(out) :
    /\ out[i].e = "backend"
    /\ ~out[i].res.ok
    /\ out[i].res.err = "backend_failure"

\* The master runs one handler to its end.  With observed set, the message
\* and what the handler did are kept in m_in and m_out.
\* A master whose broadcasts overtake those not yet applied.
Handled_overtaking(kind, x, r, pending, observed) ==
  /\ store' = r.store
  /\ clones' = r.clones
  /\ status' = r.status
  /\ failed' = (failed \/ BackendFailed(r.out))
  /\ stream' = [i \in 1..Len(Published(r.out)) |-> Published(r.out)[i].cmd]
                 \o stream
  /\ timers' = pending (+) Scheduled(Reminders(r.out), now)
  /\ IF observed
     THEN /\ m_in' = [kind |-> kind, n |-> m_in.n + 1, cmd |-> x,
                      prev |-> m_in.cmd]
          /\ m_out' = r.out
     ELSE UNCHANGED <<m_in, m_out>>
  /\ UNCHANGED <<now, clone_store, chanvars, libvars>>

Handled(kind, x, r, pending, observed) ==
  /\ store' = r.store
  /\ clones' = r.clones
  /\ status' = r.status
  /\ failed' = (failed \/ BackendFailed(r.out))
  /\ stream' = stream \o [i \in 1..Len(Published(r.out)) |->
                            Published(r.out)[i].cmd]
  /\ timers' = pending (+) Scheduled(Reminders(r.out), now)
  /\ IF observed
     THEN /\ m_in' = [kind |-> kind, n |-> m_in.n + 1, cmd |-> x,
                      prev |-> m_in.cmd]
          /\ m_out' = r.out
     ELSE UNCHANGED <<m_in, m_out>>
  /\ UNCHANGED <<now, clone_store, chanvars, libvars>>

\* The bounds leave room for what the command may add.
Fits(x) ==
  /\ Len(stream) < MaxStream
  /\ x.type \in {"put", "put_unique", "add", "subtract"} /\ x.expiry # None
       => BagCardinality(timers) < MaxTimers
  /\ x.type = "add" /\ x.key \in DOMAIN store
       => store[x.key].value + x.value <= MaxVal
  /\ x.type = "subtract" /\ x.key \in DOMAIN store
       => store[x.key].value - x.value >= 0

HandleCommand(kind, K, observed) ==
  /\ status = "running"
  /\ observed => m_in.n < MaxHandled
  /\ \E x \in Commands(K) : \E f \in SUBSET CallsOf(x.type) :
       /\ Fits(x)
       /\ Handled(kind, x,
                  command([store |-> store, clones |-> clones], now, x, f),
                  timers, observed)

HandleExpire(observed) ==
  /\ status = "running"
  /\ observed => m_in.n < MaxHandled
  /\ Len(stream) < MaxStream
  /\ \E t \in BagToSet(timers) : \E f \in SUBSET {"expire"} :
       /\ t.due <= now
       /\ Handled("expire", [type |-> "expire_timer", key |-> t.key],
                  expire([store |-> store, clones |-> clones], now, t.key, f),
                  timers (-) SetToBag({t}), observed)

\* [=](atom::local, internal_command& x)
LocalCommand == HandleCommand("local", MasterKeys, FALSE)

\* The processing step of the sink of the command stream from the core.
StreamCommand == HandleCommand("stream", MasterKeys, FALSE)

\* [=](atom::expire, data& key): a timer message whose time has come is
\* delivered.
ExpireTimer == HandleExpire(FALSE)

AdvanceClock ==
  /\ now < MaxTime
  /\ now' = now + 1
  /\ UNCHANGED <<store, clones, status, timers, m_in, m_out, failed, stream,
                 clone_store, chanvars, libvars>>

\* A clone applies a command: put stores the value, erase and expire remove
\* the key, clear removes every key.
clone_apply(cs, x) ==
  CASE x.type = "put" ->
         [k \in (DOMAIN cs) \cup {x.key} |->
            IF k = x.key THEN x.value ELSE cs[k]]
    [] x.type \in {"erase", "expire"} ->
         [k \in (DOMAIN cs) \ {x.key} |-> cs[k]]
    [] x.type = "clear" -> [k \in {} |-> cs[k]]
    [] OTHER -> cs

CloneApply ==
  /\ stream # <<>>
  /\ clone_store' = clone_apply(clone_store, Head(stream))
  /\ stream' = Tail(stream)
  /\ UNCHANGED <<store, clones, status, now, timers, m_in, m_out, failed,
                 chanvars, libvars>>

NextMaster ==
  \/ LocalCommand
  \/ StreamCommand
  \/ ExpireTimer
  \/ AdvanceClock
  \/ CloneApply

SpecMaster == Init /\ [][NextMaster]_vars

(***************************************************************************)
(* SpecHandler: the same master, with the message of every handler and     *)
(* what the handler did kept for inspection, over all keys.                *)
(***************************************************************************)
InitHandler ==
  /\ InitChannel
  /\ InitLib
  /\ store = EmptyMap
  /\ clones = EmptyMap
  /\ status = "running"
  /\ now = 0
  /\ timers = EmptyBag
  /\ m_in = [kind |-> "init", n |-> 0, cmd |-> [type |-> "none"],
            prev |-> [type |-> "none"]]
  /\ m_out = <<>>
  /\ failed = FALSE
  /\ stream = <<>>
  /\ clone_store = EmptyMap

ObservedLocal == HandleCommand("local", Keys, TRUE)
ObservedStream == HandleCommand("stream", Keys, TRUE)
ObservedExpire == HandleExpire(TRUE)

NextHandler ==
  \/ ObservedLocal
  \/ ObservedStream
  \/ ObservedExpire
  \/ AdvanceClock
  \/ CloneApply

SpecHandler == InitHandler /\ [][NextHandler]_vars

(***************************************************************************)
(* SpecStored: the master is started on a backend that already holds a key *)
(* with an expiry; init hands the clock one timer per expiring key.        *)
(***************************************************************************)
\* The key/value map of a backend.
KV(st) == [k \in DOMAIN st |-> st[k].value]

\* backend->expiries(), as the timers init hands to the clock.
InitialTimers(st) ==
  LET ks == {k \in DOMAIN st : st[k].expiry # None}
  IN SetToBag({[key |-> k, due |-> st[k].expiry[1]] : k \in ks})

InitStored ==
  /\ InitChannel
  /\ InitLib
  /\ \E k \in MasterKeys : \E v \in Values : \E d \in 1..MaxTime :
       store = [j \in {k} |-> [value |-> v, expiry |-> Some(d)]]
  /\ timers = InitialTimers(store)
  /\ clones = EmptyMap
  /\ status = "running"
  /\ now = 0
  /\ m_in = [kind |-> "init", n |-> 0, cmd |-> [type |-> "none"],
            prev |-> [type |-> "none"]]
  /\ m_out = <<>>
  /\ failed = FALSE
  /\ stream = <<>>
  /\ clone_store = KV(store)

SpecStored == InitStored /\ [][NextHandler]_vars

(***************************************************************************)
(* SpecQuery: the master of SpecStored also answers queries.               *)
(***************************************************************************)
Aspects == {"size"}

\* A query comes without a request id or with one.
QueryIds == {None} \cup {Some(r[2]) : r \in Requests}

Queries(K) ==
  {keys_query(sel) : sel \in QueryIds}
    \cup {exists_query(k, sel) : k \in K, sel \in QueryIds}
    \cup {get_query(k, sel) : k \in K, sel \in QueryIds}
    \cup {get_aspect_query(k, a, sel) : k \in K, a \in Aspects,
                                        sel \in QueryIds}

\* The backend call a query makes.
ReadOf(q) == IF q.op = "get_aspect" THEN "get" ELSE q.op

ObservedQuery ==
  /\ status = "running"
  /\ m_in.n < MaxHandled
  /\ \E q \in Queries(Keys) : \E f \in SUBSET {ReadOf(q)} :
       \E u \in Undefined :
         Handled("query", q, query([store |-> store, clones |-> clones],
                                   q, f, u), timers, TRUE)

NextQuery ==
  \/ ObservedQuery
  \/ ObservedLocal
  \/ ObservedStream
  \/ ObservedExpire
  \/ AdvanceClock
  \/ CloneApply

SpecQuery == InitStored /\ [][NextQuery]_vars

(***************************************************************************)
(* SpecDown: the master of SpecStored monitors its core and the cores that *)
(* asked for a snapshot; only the down messages it handles are kept for    *)
(* inspection.                                                             *)
(***************************************************************************)
ObservedDown ==
  /\ status = "running"
  /\ m_in.n < MaxHandled
  /\ \E source \in Cores \cup {OwnCore} : \E reason \in Reasons :
       Handled("down", down_msg(source, reason),
               down_handler([store |-> store, clones |-> clones],
                            down_msg(source, reason)), timers, TRUE)

NextDown ==
  \/ ObservedDown
  \/ LocalCommand
  \/ ExpireTimer
  \/ AdvanceClock

SpecDown == InitStored /\ [][NextDown]_vars

(***************************************************************************)
(* FairChan: the channel system under the scheduling the claims about      *)
(* eventual delivery assume: the consumer's owner keeps ticking, and a     *)
(* message in flight is eventually received.                               *)
(***************************************************************************)
FairTick(h) == ConsumerStep(h, tick(consumer[h]))

ConsumerGets(h, m) ==
  /\ m \in net_c[h]
  /\ ConsumerStep(h, IF m.type = "handshake"
                     THEN handle_handshake(consumer[h], m.first_seq)
                     ELSE handle_event(consumer[h], m.seq, m.content))

ProducerGets(m) ==
  /\ m \in net_p
  /\ ProducerStep(IF m.msg.type = "cumulative_ack"
                  THEN handle_ack(producer, m.from, m.msg.seq)
                  ELSE handle_nack(producer, m.from, m.msg.seqs))
  /\ UNCHANGED produced

\* Sorted lists of sequence numbers.
SortedLists ==
  {seqs \in UNION {[1..n -> 0..MaxSeq] : n \in 0..(MaxSeq + 1)} :
     \A k \in 1..(Len(seqs) - 1) : seqs[k] < seqs[k + 1]}

ConsumerMsgs ==
  {handshake(o) : o \in 1..(MaxSeq + 1)}
    \cup {event(q, x) : q \in 1..MaxSeq, x \in Payloads}

ProducerMsgs ==
  {[from |-> h, msg |-> cumulative_ack(q)] :
     h \in ChanHandles, q \in 0..(MaxSeq + 1)}
    \cup {[from |-> h, msg |-> nack(l)] : h \in ChanHandles, l \in SortedLists}

(***************************************************************************)
(* SpecAddr: an address of either kind of host, masked again and again     *)
(* with any argument.                                                      *)
(***************************************************************************)
InitAddr ==
  /\ InitChannel
  /\ InitMaster
  /\ InitAddress(Addresses, BOOLEAN)
  /\ InitPublisher
  /\ InitEndpoints

NextAddr == MaskCall

SpecAddr == InitAddr /\ [][NextAddr]_vars

(***************************************************************************)
(* SpecPub: one publisher, called through its interface, its worker, and   *)
(* the core granting credit.                                               *)
(***************************************************************************)
NextPub ==
  \/ Publish
  \/ DropAllOnDestruction
  \/ Reset
  \/ Destroy
  \/ WorkerReceive
  \/ AckBatch

SpecPub == Init /\ [][NextPub]_vars

(***************************************************************************)
(* SpecBatch: the publisher is handed vectors of values, of every length   *)
(* up to twice the capacity of its queue and one more.                     *)
(***************************************************************************)
SpecBatch == Init /\ [][PublishBatch]_vars

(***************************************************************************)
(* SpecPeer: the four endpoints of the ssl suite listen and dial each      *)
(* other, with and without a retry interval.                               *)
(***************************************************************************)
NextPeer ==
  \/ Listen
  \/ Peer
  \/ PeerRetry

SpecPeer == Init /\ [][NextPeer]_vars

(***************************************************************************)
(* SpecSub: mercury_auth listens and venus_auth has peered with it, as in  *)
(* the authenticated session of the suite; from there on subscribers are   *)
(* made, messages published, delivered and taken in any order.             *)
(***************************************************************************)
InitPeered ==
  /\ InitChannel
  /\ InitMaster
  /\ InitAddress({v4_mapped_prefix \o <<192, 168, 1, 2>>}, {TRUE})
  /\ InitPublisher
  /\ listening = {"mercury_auth"}
  /\ peerings = {{"venus_auth", "mercury_auth"}}
  /\ filters = [e \in Users |-> {}]
  /\ inbox = [e \in Users |-> <<>>]
  /\ polled = [e \in Users |-> <<>>]
  /\ wire = {}
  /\ sent_log = <<>>
  /\ peer_result = [from |-> "venus_auth", to |-> "mercury_auth",
                    retry |-> 1, attempts |-> 1, pending |-> FALSE,
                    ok |-> TRUE, err |-> "none"]

NextSub ==
  \/ MakeSubscriber
  \/ EndpointPublish
  \/ Deliver
  \/ Get

SpecSub == InitPeered /\ [][NextSub]_vars

NextFairChan ==
  \/ ChanProduce
  \/ ChanAdd
  \/ \E m \in ProducerMsgs : ProducerGets(m)
  \/ \E h \in ChanHandles : \E m \in ConsumerMsgs : ConsumerGets(h, m)
  \/ \E h \in ChanHandles : FairTick(h)

FairChan ==
  /\ Init
  /\ [][NextFairChan]_vars
  /\ \A h \in ChanHandles : WF_vars(FairTick(h))
  /\ \A h \in ChanHandles : \A m \in ConsumerMsgs : WF_vars(ConsumerGets(h, m))
  /\ \A m \in ProducerMsgs : WF_vars(ProducerGets(m))

(***************************************************************************)
(* Properties of the channel                                               *)
(***************************************************************************)
HasPath(h) == find_path(producer, h) # 0
PathOf(h) == producer.paths_[find_path(producer, h)]

IsPrefix(s, t) == Len(s) <= Len(t) /\ \A k \in 1..Len(s) : s[k] = t[k]

DeliveredPayloads(h) == [k \in 1..Len(delivered[h]) |-> delivered[h][k].content]
DeliveredSeqs(h) == {delivered[h][k].seq : k \in 1..Len(delivered[h])}

\* C1: while no retransmit_failed has been sent, the payloads delivered to
\* the consumer application, in delivery order, are a prefix of the payloads
\* produced from the path's offset on.
C1_DeliveredIsPrefixOfProduced ==
  \A h \in ChanHandles :
    ~rf_sent =>
      IF HasPath(h)
      THEN IsPrefix(DeliveredPayloads(h),
                    SubSeq(produced, PathOf(h).offset, Len(produced)))
      ELSE delivered[h] = <<>>

\* C2: under the fair scheduling every event produced after add(handle) is
\* eventually delivered to that consumer's application.
C2_EventuallyDelivered ==
  \A h \in ChanHandles : \A q \in 1..MaxSeq :
    (HasPath(h) /\ PathOf(h).offset <= q /\ q <= producer.seq_)
      ~> (q \in DeliveredSeqs(h))

MinAcked ==
  CHOOSE a \in {producer.paths_[i].acked : i \in 1..Len(producer.paths_)} :
    \A i \in 1..Len(producer.paths_) : a <= producer.paths_[i].acked

BufSeqs == {producer.buf_[k].seq : k \in 1..Len(producer.buf_)}

\* C3: on a producer whose paths were all there before the first produce,
\* after any produce and handle_ack calls the buffer holds exactly the events
\* with seq > min_acked.
C3_BufferHoldsExactlyUnacked ==
  (/\ producer.paths_ # <<>>
   /\ \A i \in 1..Len(producer.paths_) : producer.paths_[i].offset = 1)
    => BufSeqs = {q \in 1..producer.seq_ : q > MinAcked}

\* C4: every handshake sent to a consumer carries the offset of its path,
\* a sequence number not yet assigned when the path was added, and the first
\* event the consumer delivers is the event with seq = offset, the first one
\* produced after add.
C4_FirstDeliveredIsOffset ==
  \A h \in ChanHandles :
    /\ \A m \in net_c[h] :
         m.type = "handshake" =>
           /\ HasPath(h)
           /\ m.first_seq = PathOf(h).offset
           /\ PathOf(h).offset \in 1..(producer.seq_ + 1)
    /\ delivered[h] # <<>> =>
         /\ HasPath(h)
         /\ delivered[h][1].seq = PathOf(h).offset
         /\ delivered[h][1].content = produced[PathOf(h).offset]

FutureExpiry(k) ==
  /\ k \in DOMAIN store
  /\ store[k].expiry # None
  /\ store[k].expiry[1] > now

\* C5: with a backend that never failed and a clone that started empty, once
\* every broadcast command is applied the clone's key/value map equals the
\* master's, keys whose expiry lies strictly in the future left aside.
C5_CloneEqualsMasterWhenIdle ==
  (~failed /\ stream = <<>>) =>
    \A k \in Keys :
      \/ FutureExpiry(k)
      \/ /\ (k \in DOMAIN store) = (k \in DOMAIN clone_store)
         /\ k \in DOMAIN store => store[k].value = clone_store[k]

\* The clone has applied what the master broadcast and is level with the
\* master.
C5_Witness ==
  /\ ~failed
  /\ stream = <<>>
  /\ "k1" \in DOMAIN store
  /\ store["k1"].expiry = None
  /\ store["k1"].value = MaxVal
  /\ clone_store = KV(store)

HandlerStep == m_in'.n = m_in.n + 1

Sends(out) == SelectSeq(out, LAMBDA o : o.e = "send")
Emits(out) == SelectSeq(out, LAMBDA o : o.e = "emit")
Calls(out) == SelectSeq(out, LAMBDA o : o.e = "backend")

\* The call op of the handler returned a value.
Succeeded(out, op) ==
  \E i \in 1..Len(out) : out[i].e = "backend" /\ out[i].op = op /\ out[i].res.ok

RECURSIVE Replay(_, _)
Replay(cs, cmds) ==
  IF cmds = <<>> THEN cs ELSE Replay(clone_apply(cs, Head(cmds)), Tail(cmds))

ValidSnapshot(x) ==
  x.type = "snapshot" /\ x.remote_core # Null /\ x.remote_clone # Null

\* What a snapshot handler does when the backend hands out the snapshot.
SnapshotServed(x, ss) ==
  /\ m_out' = <<Call("snapshot", <<>>, Ok(ss)),
                Monitor(x.remote_core),
                broadcast_cmd_to_clones(snapshot_sync(x.remote_clone)),
                Send(x.remote_clone, set_cmd(ss))>>
  /\ stream' = stream \o <<snapshot_sync(x.remote_clone)>>
  /\ store' = store
  /\ ss = KV(store)

Reply(out) == Sends(out)[1].msg

RepliesOnce(x, out, flag) ==
  /\ Len(Sends(out)) = 1
  /\ Sends(out)[1].to = x.who
  /\ Reply(out) = <<flag, x.req_id>>

Rejected(x, out) ==
  /\ RepliesOnce(x, out, FALSE)
  /\ store' = store
  /\ Emits(out) = <<>>
  /\ Published(out) = <<>>

Accepted(x, out) ==
  /\ RepliesOnce(x, out, TRUE)
  /\ store' = With(store, x.key, x.value, to_opt_timestamp(now, x.expiry))
  /\ Emits(out) = <<emit_insert_event(x)>>
  /\ Published(out) =
       <<broadcast(put(x.key, x.value, x.expiry, x.publisher))>>

\* C8 as the specification words it: the reply follows from whether the key
\* is in the backend.
C8_PutUniqueByPresence ==
  [][(HandlerStep /\ m_in'.cmd.type = "put_unique") =>
       IF m_in'.cmd.key \in DOMAIN store
       THEN Rejected(m_in'.cmd, m_out')
       ELSE Accepted(m_in'.cmd, m_out')]_vars

\* C8: every put_unique command produces exactly one reply to who with the
\* req_id of the command.  When the backend's exists reports the key present
\* the reply is (false, req_id), the backend is unchanged, no event is
\* emitted and nothing is broadcast; so it is when the backend's put fails.
\* When exists reports the key absent, or fails, and the put succeeds, the key
\* is put, the reply is (true, req_id), one insert event is emitted and one
\* plain put with the same key, value, expiry and publisher is broadcast.
C8_PutUniqueByBackendAnswers ==
  [][(HandlerStep /\ m_in'.cmd.type = "put_unique") =>
       IF m_out'[1].res = Ok(TRUE) THEN Rejected(m_in'.cmd, m_out')
       ELSE IF Succeeded(m_out', "put") THEN Accepted(m_in'.cmd, m_out')
       ELSE Rejected(m_in'.cmd, m_out')]_vars

\* A put_unique for a key a put had stored was turned down.
C8_Witness ==
  /\ m_in.cmd.type = "put_unique"
  /\ m_in.prev.type = "put"
  /\ m_in.prev.key = m_in.cmd.key
  /\ m_out[1].res = Ok(TRUE)
  /\ Reply(m_out) = <<FALSE, m_in.cmd.req_id>>
  /\ store[m_in.cmd.key].value = m_in.prev.value

\* Two put_unique requests for one key handled one after the other.
UniquePair ==
  /\ HandlerStep
  /\ m_in.cmd.type = "put_unique"
  /\ m_in'.cmd.type = "put_unique"
  /\ m_in.cmd.key = m_in'.cmd.key

C10_PutEffects ==
  [][(HandlerStep /\ m_in'.cmd.type = "put" /\ Succeeded(m_out', "put")) =>
       LET x == m_in'.cmd
           out == m_out'
           got == Calls(out)[1].res
       IN /\ Calls(out)[1].op = "get"
          /\ got.ok => x.key \in DOMAIN store /\ got.val = store[x.key].value
          /\ Emits(out) =
               <<IF got.ok THEN emit_update_event(x, got.val)
                 ELSE emit_insert_event(x)>>
          /\ Reminders(out) =
               (IF x.expiry # None THEN <<remind(x.expiry[1], x.key)>>
                ELSE <<>>)
          /\ timers' =
               (IF x.expiry # None
                THEN timers (+) SetToBag({[key |-> x.key,
                                           due |-> now + x.expiry[1]]})
                ELSE timers)
          /\ Published(out) = <<broadcast(x)>>
          /\ stream' = stream \o <<x>>
          /\ store' = With(store, x.key, x.value,
                           to_opt_timestamp(now, x.expiry))]_vars

\* A put with an expiry replaced a value: an update event, a timer, one
\* broadcast.
C10_Witness ==
  /\ m_in.cmd.type = "put"
  /\ m_in.cmd.expiry # None
  /\ Succeeded(m_out, "put")
  /\ Len(Emits(m_out)) = 1
  /\ Emits(m_out)[1].event = "update"
  /\ Emits(m_out)[1].old # m_in.cmd.value
  /\ BagCardinality(timers) = 1
  /\ Published(m_out) = <<broadcast(m_in.cmd)>>

\* C11: on an expire timer message for key k the master calls
\* backend.expire(k, now); when the result is true it emits exactly one expire
\* event and broadcasts exactly one expire command for k, and k's expiry had
\* come; when the result is false or an error it emits and broadcasts nothing
\* and the backend keeps what it holds.
C11_ExpireTimer ==
  [][(HandlerStep /\ m_in'.cmd.type = "expire_timer") =>
       LET k == m_in'.cmd.key
           cmd == expire_cmd(k, MasterId)
       IN /\ Len(Calls(m_out')) = 1
          /\ Calls(m_out')[1].op = "expire"
          /\ Calls(m_out')[1].args = <<k, now>>
          /\ Sends(m_out') = <<>>
          /\ Reminders(m_out') = <<>>
          /\ IF Calls(m_out')[1].res = Ok(TRUE)
             THEN /\ Emits(m_out') = <<emit_expire_event(cmd)>>
                  /\ Published(m_out') = <<broadcast(cmd)>>
                  /\ stream' = stream \o <<cmd>>
                  /\ k \in DOMAIN store
                  /\ store[k].expiry # None
                  /\ store[k].expiry[1] <= now
                  /\ store' = Without(store, k)
             ELSE /\ Emits(m_out') = <<>>
                  /\ Published(m_out') = <<>>
                  /\ stream' = stream
                  /\ store' = store]_vars

\* The timer of a key that was written again without expiry came and was
\* ignored: the key is still there.
C11_Witness ==
  /\ m_in.cmd.type = "expire_timer"
  /\ m_in.prev.type = "put"
  /\ m_in.prev.key = m_in.cmd.key
  /\ m_in.prev.expiry = None
  /\ Calls(m_out)[1].res = Ok(FALSE)
  /\ Len(m_out) = 1
  /\ m_in.cmd.key \in DOMAIN store
  /\ stream = <<m_in.prev>>

\* The write of the handler was turned down: the backend write returned an
\* error, or subtract found no value for the key.
WriteRejected(x, out) ==
  /\ x.type \in {"put", "erase", "add", "subtract"}
  /\ \/ \E i \in 1..Len(out) :
          out[i].e = "backend" /\ out[i].op = x.type /\ ~out[i].res.ok
     \/ x.type = "subtract" /\ ~Calls(out)[1].res.ok

\* C12: a put, erase, add or subtract command that the master rejects,
\* because the backend write returns an error or because subtract targets a
\* key that does not exist, emits no store event, broadcasts nothing,
\* schedules no timer, sends nothing and leaves the backend as it is; the
\* master keeps running.
C12_RejectedWriteHasNoEffect ==
  [][(HandlerStep /\ WriteRejected(m_in'.cmd, m_out')) =>
       /\ Emits(m_out') = <<>>
       /\ Published(m_out') = <<>>
       /\ Reminders(m_out') = <<>>
       /\ Sends(m_out') = <<>>
       /\ stream' = stream
       /\ timers' = timers
       /\ store' = store
       /\ clones' = clones
       /\ status' = "running"]_vars

\* A subtract for a key that does not exist was dropped, and the master went
\* on to handle a put of that key as an insert.
C12_Witness ==
  /\ m_in.n = 2
  /\ m_in.prev.type = "subtract"
  /\ m_in.cmd.type = "put"
  /\ m_in.cmd.key = m_in.prev.key
  /\ Emits(m_out) = <<emit_insert_event(m_in.cmd)>>
  /\ stream = <<m_in.cmd>>
  /\ status = "running"

(***************************************************************************)
(* Queries and down messages                                               *)
(***************************************************************************)
Responses(out) == SelectSeq(out, LAMBDA o : o.e = "respond")

\* The backend read of the query returned an error.
ReadFailed(out) == Calls(out) # <<>> /\ ~Calls(out)[1].res.ok

\* The handler answered with that error, and with the request id when the
\* query had one.
ErrorReply(q, out) ==
  Responses(out) = <<WithId(q, Error(Calls(out)[1].res.err))>>

QueryStep == HandlerStep /\ m_in'.kind = "query"

\* C13: a keys, get or exists query whose backend read fails is answered
\* with one error reply, carrying the request id when the query had one; the
\* master's state is unchanged and the master keeps running.
C13_FailedReadRepliesError ==
  [][(QueryStep /\ ReadFailed(m_out')) =>
       /\ ErrorReply(m_in'.cmd, m_out')
       /\ store' = store
       /\ clones' = clones
       /\ timers' = timers
       /\ stream' = stream
       /\ status' = "running"]_vars

DownStep == HandlerStep /\ m_in'.kind = "down"

C15_Add ==
  \A hdl \in Handles :
    LET r == add(producer, hdl)
        n == Len(producer.paths_)
    IN IF HasPath(hdl)
       THEN /\ r.result = "consumer_exists"
            /\ r.out = <<>>
            /\ r.p = producer
       ELSE /\ r.result = "nil"
            /\ Len(r.p.paths_) = n + 1
            /\ r.p.paths_[n + 1] = [hdl |-> hdl, offset |-> producer.seq_ + 1,
                                    acked |-> producer.seq_]
            /\ \A i \in 1..n : r.p.paths_[i] = producer.paths_[i]
            /\ r.out = <<SendTo(hdl, handshake(producer.seq_ + 1))>>
            /\ r.p.buf_ = producer.buf_
            /\ r.p.seq_ = producer.seq_

\* After an event was produced for one consumer, a second handle was added:
\* the producer holds both paths, the second at offset seq + 1, the event is
\* still buffered and the one handshake went to the new handle.
C15_Witness ==
  /\ add_result = "nil"
  /\ producer.seq_ = 1
  /\ Len(producer.buf_) = 1
  /\ Len(producer.paths_) = 2
  /\ producer.paths_[2] = [hdl |-> "c2", offset |-> 2, acked |-> 1]
  /\ pout = <<SendTo("c2", handshake(2))>>

\* C16: an ack above the producer's sequence number counts as an ack of the
\* sequence number: whatever produce, add, handle_ack and handle_nack calls
\* were made, every path has acked <= seq.
C16_AckedAtMostSeq ==
  \A i \in 1..Len(producer.paths_) : producer.paths_[i].acked <= producer.seq_

\* C18: handle_nack(hdl, seqs) with an empty list, or for a handle without
\* a path, sends nothing and changes nothing; for a handle with a path and a
\* list that begins with 0 it sends exactly one message, handshake{offset of
\* that path}, to that handle, and leaves the paths, the buffer and the
\* sequence number as they are.
C18_NackFromZero ==
  \A hdl \in Handles : \A seqs \in NackLists :
    LET r == handle_nack(producer, hdl, seqs)
    IN /\ (seqs = <<>> \/ ~HasPath(hdl)) => (r.out = <<>> /\ r.p = producer)
       /\ (seqs # <<>> /\ HasPath(hdl) /\ seqs[1] = 0) =>
            /\ r.out = <<SendTo(hdl, handshake(PathOf(hdl).offset))>>
            /\ r.p = producer

\* A consumer added before the first event asked again for the handshake
\* after that event was produced: it was sent its offset 1, not the offset a
\* new consumer would get, and the event is still buffered.
C18_Witness ==
  /\ producer.seq_ = 1
  /\ Len(producer.buf_) = 1
  /\ HasPath("c1")
  /\ PathOf("c1") = [hdl |-> "c1", offset |-> 1, acked |-> 0]
  /\ pout = <<SendTo("c1", handshake(1))>>

\* The events of the buffer with that sequence number.
Buffered(p, seq) == {p.buf_[i] : i \in {j \in 1..Len(p.buf_) : p.buf_[j].seq = seq}}

\* C19: handle_nack(hdl, seqs) for a handle with a path and a list sorted
\* ascending with seqs[0] > 0 leaves the producer as handle_ack(hdl,
\* seqs[0] - 1) leaves it and sends to hdl, in list order, exactly one
\* message per requested seq: the buffered event with that seq when the
\* buffer still holds it, retransmit_failed{seq} when the event was produced
\* and is no longer in the buffer.
C19_NackRetransmits ==
  \A hdl \in Handles : \A seqs \in SortedLists :
    (HasPath(hdl) /\ seqs # <<>> /\ seqs[1] > 0) =>
      LET r == handle_nack(producer, hdl, seqs)
          q == handle_ack(producer, hdl, seqs[1] - 1).p
      IN /\ r.p = q
         /\ Len(r.out) = Len(seqs)
         /\ \A k \in 1..Len(seqs) :
              /\ r.out[k].to = hdl
              /\ Buffered(q, seqs[k]) # {} =>
                   /\ r.out[k].msg \in Buffered(q, seqs[k])
                   /\ r.out[k].msg.type = "event"
              /\ (Buffered(q, seqs[k]) = {} /\ seqs[k] <= q.seq_) =>
                   r.out[k].msg = retransmit_failed(seqs[k])

\* Event 1 was acknowledged and pruned, event 2 is buffered; the nack
\* <<1, 2>> set the path back to acked = 0 and was answered, in this order,
\* with retransmit_failed{1} and event 2.
C19_Witness ==
  /\ producer.seq_ = 2
  /\ Len(producer.buf_) = 1
  /\ HasPath("c1")
  /\ PathOf("c1").acked = 0
  /\ Len(pout) = 2
  /\ pout[1] = SendTo("c1", retransmit_failed(1))
  /\ pout[2] = SendTo("c1", producer.buf_[1])
  /\ producer.buf_[1].seq = 2

\* What produce(content) does to the producer and hands to the backend.
ProduceAppendsAndFansOut ==
  \A content \in Payloads :
    LET r == produce(producer, content)
        ev == event(producer.seq_ + 1, content)
    IN /\ r.p.seq_ = producer.seq_ + 1
       /\ r.p.buf_ = Append(producer.buf_, ev)
       /\ r.p.paths_ = producer.paths_
       /\ Len(r.out) = Len(producer.paths_)
       /\ \A i \in 1..Len(r.out) :
            r.out[i] = SendTo(producer.paths_[i].hdl, ev)

\* The buffer is strictly ascending and contiguous in seq and ends at seq_.
BufferContiguous ==
  /\ \A i \in 1..(Len(producer.buf_) - 1) :
       producer.buf_[i + 1].seq = producer.buf_[i].seq + 1
  /\ producer.buf_ # <<>> =>
       /\ producer.buf_[Len(producer.buf_)].seq = producer.seq_
       /\ producer.buf_[1].seq >= 1

\* An event of the buffer that was produced before the step is in the
\* buffer before the step, unchanged.
BufferedEventsUnchanged ==
  \A i \in 1..Len(producer'.buf_) :
    producer'.buf_[i].seq <= producer.seq_ =>
      \E j \in 1..Len(producer.buf_) : producer.buf_[j] = producer'.buf_[i]

\* C28: produce(payload) increases seq by exactly 1, appends exactly one
\* event {seq, payload} at the tail of the buffer and sends that event to
\* every current path and to nobody else; the buffer is always strictly
\* ascending and contiguous in seq, the first event has seq 1, and no call
\* changes an event that is in the buffer.
C28_Produce ==
  /\ [](ProduceAppendsAndFansOut /\ BufferContiguous)
  /\ [][BufferedEventsUnchanged]_vars

\* The second event was produced with two paths present: both events are
\* buffered and the second was sent to both handles.
C28_Witness ==
  /\ producer.seq_ = 2
  /\ Len(producer.buf_) = 2
  /\ Len(producer.paths_) = 2
  /\ pout = <<SendTo(producer.paths_[1].hdl, producer.buf_[2]),
              SendTo(producer.paths_[2].hdl, producer.buf_[2])>>

(***************************************************************************)
(* The acknowledgements of a consumer                                      *)
(***************************************************************************)
\* C17: a consumer that sends only the cumulative_acks its own tick
\* generates from the handshakes and events it processed never has the
\* producer handle a cumulative_ack above the producer's sequence number:
\* no cumulative_ack in flight to the producer, which the producer may
\* handle at any time, exceeds seq.
C17_HonestAckAtMostSeq ==
  \A m \in net_p :
    m.msg.type = "cumulative_ack" => m.msg.seq <= producer.seq_

\* The consumer handed its owner a stale_data signal.
SignalsStaleData(out) == \E i \in 1..Len(out) : out[i].type = "stale_data"

\* C20: when the owner of a consumer receives retransmit_failed{seq} for an
\* event the consumer has not delivered, the consumer signals stale_data to
\* its owner, and from then on it delivers no event with a higher sequence
\* number.
C20_RetransmitFailedIsFatal ==
  [][\A h \in ChanHandles :
       /\ gap_reported'[h] # gap_reported[h] => SignalsStaleData(cout'[h])
       /\ \A seq \in gap_reported[h] :
            \A k \in (Len(delivered[h]) + 1)..Len(delivered'[h]) :
              delivered'[h][k].seq <= seq]_vars

\* C21: as long as a consumer has delivered no event, every cumulative_ack it
\* has sent, the first one after the handshake included, carries seq 0; and
\* the producer handles an ack of 0 as nothing delivered: it prunes no event
\* and leaves the path's acked at most seq.
C21_FirstAckIsZero ==
  \A h \in ChanHandles :
    /\ delivered[h] = <<>> =>
         \A m \in net_p :
           (m.from = h /\ m.msg.type = "cumulative_ack") => m.msg.seq = 0
    /\ HasPath(h) =>
         LET q == handle_ack(producer, h, 0).p
         IN /\ q.buf_ = producer.buf_
            /\ q.paths_[find_path(q, h)].acked <= q.seq_

(***************************************************************************)
(* The member functions of the consumer, on every consumer the calls reach *)
(***************************************************************************)
\* Event k = next_seq_ >= 1 is missing and the buffer holds k + 1, ..., n.
HoldsBehindGap(c) ==
  /\ c.next_seq_ >= 1
  /\ c.buf_ # <<>>
  /\ \A i \in 1..Len(c.buf_) : c.buf_[i].seq = c.next_seq_ + i

RECURSIVE Run(_, _)
Run(buf, seq) ==
  IF \E i \in 1..Len(buf) : buf[i].seq = seq
  THEN <<buf[CHOOSE i \in 1..Len(buf) : buf[i].seq = seq]>> \o Run(buf, seq + 1)
  ELSE <<>>

\* C29: handle_handshake(offset) with offset < next_seq changes nothing and
\* delivers nothing; with offset >= next_seq it sets next_seq to offset + 1
\* and delivers the buffered events whose sequence numbers continue
\* consecutively from there; applied a second time with the same offset it
\* changes nothing and delivers nothing.
C29_Handshake ==
  \A h \in ChanHandles : \A offset \in 0..MaxSeq :
    LET c == consumer[h]
        r == handle_handshake(c, offset)
        again == handle_handshake(r.c, offset)
    IN /\ r.out = <<>>
       /\ offset < c.next_seq_ => (r.c = c /\ r.consumed = <<>>)
       /\ offset >= c.next_seq_ =>
            /\ r.consumed = Run(c.buf_, offset + 1)
            /\ r.c.next_seq_ = offset + 1 + Len(r.consumed)
       /\ again.c = r.c
       /\ again.consumed = <<>>

\* buf with the event ev put in front of the first event of a higher
\* sequence number.
Inserted(buf, ev) ==
  LET below == SelectSeq(buf, LAMBDA x : x.seq < ev.seq)
      above == SelectSeq(buf, LAMBDA x : x.seq > ev.seq)
  IN below \o <<ev>> \o above

\* C30: handle_event(seq, p) with seq = next_seq delivers p and then the
\* buffered events with the consecutive following sequence numbers, removes
\* these from the buffer and leaves next_seq one past the last delivered
\* one; with seq > next_seq it delivers nothing, leaves next_seq and puts p
\* into the buffer in order unless the buffer has an entry with that seq;
\* with seq < next_seq it delivers nothing and changes nothing.
C30_HandleEvent ==
  \A h \in ChanHandles : \A seq \in 1..MaxSeq : \A content \in Payloads :
    LET c == consumer[h]
        r == handle_event(c, seq, content)
        following == Run(c.buf_, seq + 1)
    IN /\ r.out = <<>>
       /\ seq = c.next_seq_ =>
            /\ r.consumed = <<event(seq, content)>> \o following
            /\ r.c.next_seq_ = seq + 1 + Len(following)
            /\ r.c.buf_ = SelectSeq(c.buf_,
                 LAMBDA x : \A i \in 1..Len(following) : following[i] # x)
       /\ seq > c.next_seq_ =>
            /\ r.consumed = <<>>
            /\ r.c.next_seq_ = c.next_seq_
            /\ r.c.buf_ = IF \E i \in 1..Len(c.buf_) : c.buf_[i].seq = seq
                          THEN c.buf_
                          ELSE Inserted(c.buf_, event(seq, content))
       /\ seq < c.next_seq_ => (r.c = c /\ r.consumed = <<>>)

(***************************************************************************)
(* address::mask                                                           *)
(***************************************************************************)
\* the n highest-order bits of a, every lower bit zero
TopBits(a, n) ==
  [j \in 1..num_bytes |->
     LET t == n - 8 * (j - 1)
     IN IF t >= 8 THEN a[j]
        ELSE IF t <= 0 THEN 0
        ELSE (a[j] \div (2 ^ (8 - t))) * (2 ^ (8 - t))]

\* C27: for every address and every n in 0..128, mask(n) returns true and
\* leaves exactly the n highest-order bits of the sixteen network-order
\* bytes, so masking twice equals masking once, mask(128) changes nothing
\* and mask(0) gives the all-zero address; for n > 128 mask returns false
\* and changes nothing.
C27_Mask ==
  \A n \in 0..Uint8Max :
    LET r == mask(address, n, little_endian)
    IN IF n <= 128
       THEN /\ r.ok
            /\ r.bytes = TopBits(address, n)
            /\ mask(r.bytes, n, little_endian) = r
            /\ (n = 128 => r.bytes = address)
            /\ (n = 0 => r.bytes = [j \in 1..num_bytes |-> 0])
       ELSE /\ ~r.ok
            /\ r.bytes = address

\* 255.255.255.255... masked to its 13 highest bits on a little-endian host
C27_Witness ==
  /\ little_endian
  /\ mask_ok
  /\ address = [j \in 1..num_bytes |-> IF j = 1 THEN 255
                                       ELSE IF j = 2 THEN 248 ELSE 0]

(***************************************************************************)
(* The publisher and its worker                                            *)
(***************************************************************************)
\* C25: when drop_all_on_destruction() was never called the worker is not
\* killed, and it ends its stream only with shutting_down set and the
\* shared queue empty, every item publish() put into the queue having been
\* pushed downstream, in order; it exits only after ending the stream.
C25_ShutdownDrainsQueue ==
  pub_call.drops = 0 =>
    /\ worker.status # "killed"
    /\ worker.at_end =>
         /\ worker.shutting_down
         /\ queue = <<>>
         /\ pushed = [i \in 1..pub_call.items |-> i]
    /\ worker.status = "done" => worker.at_end

C25_Witness ==
  /\ pub_call.drops = 0
  /\ pub_call.resets > 0
  /\ worker.status = "done"
  /\ Len(pushed) = 2

ResetCall ==
  /\ pub_call'.n = pub_call.n + 1
  /\ pub_call'.op \in {"reset", "destroy"}

\* C26: the first reset() (or the destructor, when reset() was never
\* called) sends exactly one message to the worker, shutdown when
\* drop_all_on_destruction() was not called and a user_shutdown exit
\* otherwise, and clears the worker handle; every later reset() and the
\* destructor send nothing.
C26_ResetIdempotent ==
  [][ResetCall =>
       /\ ~pub'.worker_
       /\ IF pub_call.resets = 0
          THEN LET m == IF pub_call.drops = 0 THEN shutdown
                        ELSE user_shutdown
               IN /\ pub_out' = <<m>>
                  /\ mailbox' = Append(mailbox, m)
          ELSE /\ pub_out' = <<>>
               /\ mailbox' = mailbox
               /\ pub' = [pub EXCEPT !.destroyed = pub'.destroyed]]_vars

C26_Witness ==
  /\ pub_call.op = "destroy"
  /\ pub_call.resets = 3
  /\ pub_out = <<>>
  /\ \E i \in 1..Len(mailbox) : mailbox[i] = shutdown

(***************************************************************************)
(* Endpoints                                                               *)
(***************************************************************************)
Copies(seq, id) == Cardinality({k \in 1..Len(seq) : seq[k].id = id})

\* how often message id has reached the subscriber of e
Received(e, id) == Copies(polled[e], id) + Copies(inbox[e], id)

InFlight(e, id) == Cardinality({c \in wire : c.to = e /\ c.msg.id = id})

\* C23: a message published on an endpoint under a topic that it and a
\* peer both subscribe to reaches the peer's subscriber exactly once (one
\* copy, on its way, queued or taken, and never a second one) and never
\* reaches the subscriber of the publishing endpoint.
C23_DeliveredOnceToPeerOnly ==
  \A k \in 1..Len(sent_log) :
    LET s == sent_log[k]
    IN /\ \A e \in s.to :
            Received(e, s.msg.id) + InFlight(e, s.msg.id) = 1
       /\ Received(s.from, s.msg.id) = 0
       /\ InFlight(s.from, s.msg.id) = 0

C23_Witness ==
  /\ Len(sent_log) = 1
  /\ sent_log[1].from = "mercury_auth"
  /\ sent_log[1].to = {"venus_auth"}
  /\ filters["mercury_auth"] # {}
  /\ polled["venus_auth"] = <<sent_log[1].msg>>
  /\ inbox["venus_auth"] = <<>>
  /\ inbox["mercury_auth"] = <<>>
  /\ wire = {}

\* C24: a peer() without retry from an endpoint with TLS credentials to a
\* listening endpoint that has none, or whose certificate the CA has not
\* signed, makes one attempt and fails with peer_unavailable or
\* peer_incompatible; such a pair is never peered.
C24_TlsMismatchFails ==
  /\ \A a, b \in Endpoints :
       (cert_id[a] # "" /\ cert_id[b] \notin SignedByCA) =>
         {a, b} \notin peerings
  /\ ( /\ peer_result.from \in Endpoints
       /\ peer_result.retry = 0
       /\ cert_id[peer_result.from] # ""
       /\ cert_id[peer_result.to] \notin SignedByCA ) =>
       /\ peer_result.attempts = 1
       /\ ~peer_result.pending
       /\ ~peer_result.ok
       /\ peer_result.err \in PeerErrors

C24_Witness ==
  /\ peer_result.from = "venus_auth"
  /\ peer_result.to = "earth_wrong_auth"
  /\ peer_result.retry = 0
  /\ ~peer_result.ok
  /\ "earth_wrong_auth" \in listening

(***************************************************************************)
(* The reorder buffer and the nacks of the consumer                        *)
(***************************************************************************)
ConsumerBufSeqs(c) == {c.buf_[i].seq : i \in 1..Len(c.buf_)}

StrictlyAscending(seqs) ==
  \A i \in 1..Len(seqs) : \A j \in (i + 1)..Len(seqs) : seqs[i] < seqs[j]

\* C31: whatever handle_handshake, handle_event and tick calls a consumer
\* has seen, its reorder buffer is sorted strictly ascending by seq and
\* every buffered event has seq > next_seq_.
C31_BufferSortedAboveNext ==
  \A h \in ChanHandles :
    LET c == consumer[h]
    IN /\ StrictlyAscending([i \in 1..Len(c.buf_) |-> c.buf_[i].seq])
       /\ \A s \in ConsumerBufSeqs(c) : s > c.next_seq_

\* C32: every nack a tick sends is non-empty, strictly ascending and lists
\* exactly the seqs from next_seq_ up to, not including, the last buffered
\* one that the buffer lacks; with events buffered and no handshake
\* processed (next_seq_ is still 0) the nack begins with 0.
C32_NackListsTheGaps ==
  \A h \in ChanHandles :
    LET c == consumer[h]
        out == tick(c).out
    IN \A k \in 1..Len(out) :
         out[k].type = "nack" =>
           LET seqs == out[k].seqs
               last == c.buf_[Len(c.buf_)].seq
           IN /\ seqs # <<>>
              /\ StrictlyAscending(seqs)
              /\ {seqs[i] : i \in 1..Len(seqs)}
                   = {s \in c.next_seq_..(last - 1) :
                        s \notin ConsumerBufSeqs(c)}
              /\ c.next_seq_ = 0 => seqs[1] = 0

(***************************************************************************)
(* What a tick of the consumer sends                                       *)
(***************************************************************************)
\* C33: a tick sends at most one message.  It sends a nack iff next_seq_
\* has not advanced since the previous tick, the buffer is non-empty and
\* the ticks without progress since the last progress or nack, this one
\* included, are at least nack_timeout (idle_ticks_ is then 0); otherwise
\* it sends cumulative_ack{next_seq_ - 1} (0 when nothing was delivered)
\* iff the tick counter is a multiple of ack_interval; a tick that sees
\* progress leaves idle_ticks_ at 0 and sends no nack.
C33_TickSendsNackOrAck ==
  \A h \in ChanHandles :
    LET c == consumer[h]
        r == tick(c)
        progressed == c.next_seq_ > c.last_tick_seq_
        due == /\ ~progressed
               /\ c.buf_ # <<>>
               /\ idle_run[h] + 1 >= c.nack_timeout_
    IN /\ Len(r.out) <= 1
       /\ ~r.threw
       /\ SendsNack(r.out) <=> due
       /\ due => r.c.idle_ticks_ = 0
       /\ progressed => r.c.idle_ticks_ = 0
       /\ ~due =>
            IF (c.tick_ + 1) % c.ack_interval_ = 0
            THEN r.out = <<cumulative_ack(IF c.next_seq_ > 0
                                          THEN c.next_seq_ - 1 ELSE 0)>>
            ELSE r.out = <<>>

(***************************************************************************)
(* What the master broadcasts for add and subtract                         *)
(***************************************************************************)
\* the handler has read the new value back after its write
ReadBack(out) ==
  LET calls == Calls(out)
  IN /\ calls # <<>>
     /\ calls[Len(calls)].op = "get"
     /\ calls[Len(calls)].res.ok

\* C34: an add or subtract is never broadcast as such; when the write and
\* the read-back of the new value have succeeded the master broadcasts
\* exactly one plain put with the key, the value the backend now holds,
\* the publisher of the command and no expiry, also when the command
\* carried an expiry, which goes to the backend and the timer only; when
\* the write or the read-back fails nothing is emitted or broadcast.
C34_AddSubtractBroadcastPut ==
  [][(HandlerStep /\ m_in'.cmd.type \in {"add", "subtract"}) =>
       LET x == m_in'.cmd
           out == m_out'
       IN /\ \A i \in 1..Len(Published(out)) :
               Published(out)[i].cmd.type = "put"
          /\ (Succeeded(out, x.type) /\ ReadBack(out)) =>
               LET cmd == put(x.key, store'[x.key].value, None, x.publisher)
               IN /\ Published(out) = <<broadcast(cmd)>>
                  /\ stream' = stream \o <<cmd>>
                  /\ store'[x.key].expiry = to_opt_timestamp(now, x.expiry)
                  /\ Reminders(out) =
                       (IF x.expiry # None
                        THEN <<remind(x.expiry[1], x.key)>>
                        ELSE <<>>)
          /\ ~ReadBack(out) => Published(out) = <<>> /\ Emits(out) = <<>>]_vars

\* C34 as stated: every add or subtract whose backend write succeeds is
\* followed by the broadcast of exactly one plain put with the key, the
\* value the backend now holds, the publisher and no expiry.
C34_WriteAlwaysBroadcast ==
  [][(HandlerStep /\ m_in'.cmd.type \in {"add", "subtract"}
        /\ Succeeded(m_out', m_in'.cmd.type)) =>
       LET x == m_in'.cmd
       IN Published(m_out')
            = <<broadcast(put(x.key, store'[x.key].value, None,
                              x.publisher))>>]_vars

\* An add with an expiry on a key that held a value: the put broadcast has
\* the new value and no expiry, the backend and the timer have the expiry.
C34_Witness ==
  /\ m_in.cmd.type = "add"
  /\ m_in.cmd.expiry # None
  /\ Succeeded(m_out, "add")
  /\ ReadBack(m_out)
  /\ Emits(m_out)[1].event = "update"
  /\ Published(m_out)
       = <<broadcast(put(m_in.cmd.key, store[m_in.cmd.key].value, None,
                         m_in.cmd.publisher))>>
  /\ store[m_in.cmd.key].expiry # None
  /\ BagCardinality(timers) >= 1


\* The backend call that performs the write of a mutating command.
WriteOp(type) ==
  CASE type = "put_unique" -> "put"
    [] type = "expire_timer" -> "expire"
    [] OTHER -> type

MutatingTypes ==
  {"put", "put_unique", "erase", "add", "subtract", "clear", "expire_timer"}

\* C35: for every mutating command (put, put_unique, erase, add, subtract,
\* clear and the expire timer) every store event the handler emits comes
\* after the successful backend write of that command and before its
\* broadcast; no event is emitted for a write that has not been performed.
C35_EventsAfterWriteBeforeBroadcast ==
  [][(HandlerStep /\ m_in'.cmd.type \in MutatingTypes) =>
       LET out == m_out'
           op == WriteOp(m_in'.cmd.type)
       IN \A i \in 1..Len(out) :
            out[i].e = "emit" =>
              /\ \E j \in 1..(i - 1) :
                   /\ out[j].e = "backend"
                   /\ out[j].op = op
                   /\ out[j].res.ok
              /\ \A p \in 1..Len(out) : out[p].e = "publish" => i < p]_vars


\* C36: after a snapshot command with valid handles whose backend snapshot
\* succeeded, clones[remote_core] is the remote_clone of the command, also
\* when the core was registered before; a snapshot command with a null
\* remote_core or remote_clone registers nothing, broadcasts nothing and
\* sends no set.
C36_SnapshotRegistersClone ==
  [][(HandlerStep /\ m_in'.cmd.type = "snapshot") =>
       LET x == m_in'.cmd
           out == m_out'
       IN IF x.remote_core = Null \/ x.remote_clone = Null
          THEN /\ clones' = clones
               /\ Published(out) = <<>>
               /\ Sends(out) = <<>>
          ELSE Succeeded(out, "snapshot") =>
                 /\ x.remote_core \in DOMAIN clones'
                 /\ clones'[x.remote_core] = x.remote_clone]_vars


RECURSIVE Concat(_)
Concat(ss) == IF ss = <<>> THEN <<>> ELSE Head(ss) \o Concat(Tail(ss))

\* C37: publish(batch) hands the values to the queue in chunks of at most
\* capacity() items each, none of them empty; the chunks in order are the
\* input vector, no value lost, duplicated or moved, and there are
\* ceil(size / capacity) of them.
C37_BatchInChunks ==
  LET n == Len(batch.xs)
  IN /\ \A k \in 1..Len(batch.chunks) :
          /\ Len(batch.chunks[k]) <= queue_size
          /\ Len(batch.chunks[k]) >= 1
     /\ Concat(batch.chunks) = batch.xs
     /\ Len(batch.chunks) = (n + queue_size - 1) \div queue_size

\* A vector of more than twice the capacity has gone to the queue in three
\* chunks, the last one shorter than the capacity.
C37_Witness ==
  /\ Len(batch.xs) > 2 * queue_size
  /\ Len(batch.chunks) = 3
  /\ Len(batch.chunks[3]) < queue_size
  /\ batch.n = 2
  /\ batch.xs[1] > 1


\* C38: a path's acked never decreases, whatever acks and nacks the
\* transport delivers late or out of order, and idle() does not turn from
\* true to false without a produce in between.
C38_AckedNeverDecreases ==
  [][/\ \A i \in 1..Len(producer.paths_) :
          \A j \in 1..Len(producer'.paths_) :
            producer'.paths_[j].hdl = producer.paths_[i].hdl =>
              producer'.paths_[j].acked >= producer.paths_[i].acked
     /\ (idle(producer) /\ producer'.seq_ = producer.seq_)
          => idle(producer')]_vars


\* C39: with consumers that send only the acks and nacks of their own tick,
\* whenever every path has acked = seq (idle() is true) every consumer with
\* a path has delivered every event from its path's offset up to the
\* producer's sequence number.
C39_IdleMeansDelivered ==
  idle(producer) =>
    \A i \in 1..Len(producer.paths_) :
      \A s \in producer.paths_[i].offset..producer.seq_ :
        s \in DeliveredSeqs(producer.paths_[i].hdl)


\* C40: with consumers that send only the acks and nacks of their own tick,
\* over a transport that may drop, duplicate and reorder messages, the
\* producer never sends retransmit_failed.
C40_NeverRetransmitFailed == ~rf_sent

====
